---- MODULE Spec2Model ----
(***************************************************************************)
(* Authentication core of freres_unis: login (password / PIN), lockout,     *)
(* OTP step-up, token issuance, refresh rotation, logout and blacklist.     *)
(* The database tables are the state; every request handler is one action,  *)
(* except in the *Race specifications where a handler is split at the       *)
(* points where it reads and where it commits.                              *)
(*                                                                          *)
(* Time is counted in clock seconds (the resolution of the iat / exp claims *)
(* of a token); the durations of the configuration are scaled down to a few *)
(* seconds and keep their order.                                            *)
(***************************************************************************)
EXTENDS Integers, Sequences, FiniteSets, TLC

\* ------------------------------------------------------------------ bounds
MaxTime == 2          \* the clock runs 0..MaxTime
MaxRows == 3          \* refresh-token rows ever inserted

\* the largest Inventory.quantity an increase may reach
MaxQty == 3
MaxOtp == 2           \* OTP rows ever inserted
MAX_FAIL == 2         \* settings.MAX_FAIL, the configured lockout threshold
SUSP_MIN == 2         \* settings.SUSP_MIN, in clock ticks
ACCESS_TOKEN_EXPIRE == 1   \* settings.ACCESS_TOKEN_EXPIRE_MINUTES, in ticks
REFRESH_TOKEN_EXPIRE == 2  \* settings.REFRESH_TOKEN_EXPIRE_DAYS, in ticks
OTP_EXPIRE == 1       \* OTP_EXPIRE_MINUTES of core/otp.py, in ticks
STEPUP_AGE == 2       \* timedelta(hours=24) of is_otp_required, in ticks

NoTime == 0 - 1       \* a NULL timestamp
NoId == 0             \* a NULL integer key
None == "none"        \* a NULL string / a None result

\* ---------------------------------------------------------------- accounts
Kinds == {"user", "pos", "client"}

\* the rows of the users, pos_user and clients tables: <<kind, id>>.
\* user 1 and pos 1 have the same primary key in their own tables.
Accounts == {<<"user", 1>>, <<"user", 2>>, <<"pos", 1>>, <<"client", 2>>}

Kind(a) == a[1]
Id(a) == a[2]

\* User.email / POSUser.phone / Client.phone; "ex" and "px" match no row
Emails == {"e1", "E1", "e2", "e3", "ex"}
Phones == {"p1", "p2", "px"}
Identifier(a) ==
    IF a = <<"user", 1>> THEN "e1"
    ELSE IF a = <<"user", 2>> THEN "e2"
    ELSE IF a = <<"pos", 1>> THEN "p1"
    ELSE "p2"

\* POSUser.email (OTP verification looks POS users up by e-mail too)
PosEmail == "e3"

\* getattr(account, "role", None)
Role(a) ==
    IF a = <<"user", 1>> THEN "admin"
    ELSE IF Kind(a) = "user" THEN "user"
    ELSE IF Kind(a) = "pos" THEN "cashier"
    ELSE None

\* the columns each model maps; hasattr() is false for the others on a
\* freshly loaded row, and an assignment to them is never persisted
Mapped(kind) ==
    IF kind = "user" THEN
        {"status", "password_hash", "failed_attempts", "suspended_until",
         "last_login", "last_login_ip", "last_login_user_agent",
         "allowed_login_start", "allowed_login_end"}
    ELSE IF kind = "pos" THEN
        {"is_active", "password_hash", "pin_hash", "last_login_ip",
         "last_login_user_agent", "allowed_login_start", "allowed_login_end"}
    ELSE
        {"status", "password_hash", "pin_hash", "last_login_ip",
         "last_login_user_agent"}

\* a POSUser without the is_active column: C12 must fail with it
hasattr_Mut(a, f) == f \in Mapped(Kind(a)) \ {"is_active"}

hasattr(a, f) == f \in Mapped(Kind(a))

\* ---------------------------------------------------------------- requests
IPs == {"ip1", "ip2"}
UAs == {"ua1", "ua2", "uaLong"}
Secrets == {"pw", "pin", "bad", "pw2", "short"}
Codes == {"c1", "c2"}
Purposes == {"login", "password_reset"}

\* str.lower() / a case-insensitive ILIKE on these identifiers
Lower(x) == IF x = "E1" THEN "e1" ELSE x

\* len(new_password) < 8
TooShort(secret) == secret = "short"

\* user_agent[:255]: only the over-long header changes
Trunc255(ua) == IF ua = "uaLong" THEN "uaLong255" ELSE ua

\* -------------------------------------------------------- credential store
\* bcrypt(sha256(secret), salt): the scheme, the secret and the salt
hash_password(secret, salt) == <<"sha256+bcrypt", secret, salt>>

LegacyHash(secret, salt) == <<"bcrypt", secret, salt>>

NoHash == <<"none", "", 0>>

verify_password(secret, stored_hash) ==
    \/ stored_hash[1] = "sha256+bcrypt" /\ stored_hash[2] = secret
    \/ stored_hash[1] = "bcrypt" /\ stored_hash[2] = secret

\* bcrypt.checkpw(secret, hash) on the plain secret: the legacy scheme only
IsLegacyMatch(secret, stored_hash) ==
    stored_hash[1] = "bcrypt" /\ stored_hash[2] = secret

hash_refresh_token(token, salt) == hash_password(token, salt)

verify_refresh_token_hash(plain_token, hashed_token) ==
    verify_password(plain_token, hashed_token)

\* a create_access_token whose account_type claim is always "user": C16
\* must fail with it
create_access_token_Mut(a, t, jti) ==
    [key |-> "SECRET_KEY", sub |-> Id(a), account_type |-> "user",
     role |-> Role(a), iat |-> t, exp |-> t + ACCESS_TOKEN_EXPIRE,
     jti |-> jti, type |-> "access"]

\* ------------------------------------------------------------------ tokens
\* jwt.encode is deterministic: a token is its claims and the key it was
\* signed with.  Datetimes are encoded as whole seconds.
create_access_token(a, t, jti) ==
    [key |-> "SECRET_KEY", sub |-> Id(a), account_type |-> Kind(a),
     role |-> Role(a), iat |-> t, exp |-> t + ACCESS_TOKEN_EXPIRE,
     jti |-> jti, type |-> "access"]

create_refresh_token(a, t) ==
    [key |-> "REFRESH_SECRET_KEY", sub |-> Id(a), account_type |-> Kind(a),
     role |-> Role(a), iat |-> t, exp |-> t + REFRESH_TOKEN_EXPIRE,
     jti |-> 0, type |-> "refresh"]

\* jwt.decode: signature under the given key and exp not in the past
JwtDecodes(token, key, t) == token.key = key /\ token.exp >= t

verify_refresh_token(token, t) ==
    JwtDecodes(token, "REFRESH_SECRET_KEY", t) /\ token.type = "refresh"

\* a decode that checks neither the key nor the type claim: C15 must fail
\* with it
decode_access_token_Mut(token, t) == token.exp >= t

decode_access_token(token, t) ==
    JwtDecodes(token, "SECRET_KEY", t) /\ token.type = "access"

VARIABLES
    now,              \* datetime.now(timezone.utc), in seconds
    acct,             \* the users / pos_user / clients rows
    refresh_tokens,   \* the refresh_tokens table, in insertion order
    jwt_blacklist,    \* the jwt_blacklist table
    otp_codes,        \* the otp_codes table
    nextJti,          \* uuid4() of create_access_token, as a fresh number
    nextOtp,          \* otp_codes.id sequence
    held,             \* tokens handed to callers: access and raw refresh
    req,              \* in-flight requests of the *Race specifications
    api_keys,         \* the api_keys table, by APIKey.key
    user_roles,       \* the user_roles / posuser_roles / client_roles tables
    role_permissions, \* the role_permissions table, by Role.name
    current_balance,  \* Client.current_balance, by Client.id
    client_returns,   \* the client_returns table with its items, by id
    client_payments,  \* the client_payments table, in insertion order
    txn,              \* open database transactions of the business services
    inventory,        \* the inventory table, by Inventory.id
    procurement_status, \* by Procurement.id: Procurement.status, and the
                        \* warehouse of a receive_procurement call that
                        \* has committed its stock and not yet its status
    expenses,         \* the pos_expenses table, by POSExpense.id
    hist,             \* history kept by the specifications, not by the code
    last              \* the last request and its response

\* the tables of API keys and of role-based access control
access == <<api_keys, user_roles, role_permissions>>

\* the tables of authentication
auth == <<now, acct, refresh_tokens, jwt_blacklist, otp_codes, nextJti,
          nextOtp, held, req>>

\* the tables of client payments and returns
ledger == <<current_balance, client_returns, client_payments, txn>>

\* the tables of stock keeping
stock == <<inventory, procurement_status>>

\* the tables of the business services
business == <<ledger, stock, expenses>>

vars == <<auth, access, business, hist, last>>

NoAcct == <<"none", 0>>

NoTok ==
    [key |-> "none", sub |-> 0, account_type |-> "none", role |-> None,
     iat |-> 0, exp |-> 0, jti |-> 0, type |-> "none"]

Procs == {1, 2}

\* a request between its reads and its commit: where it is, what it was
\* called with, what it read, and whether another request with the same
\* argument was in flight at the same time
Idle == [pc |-> "idle", tok |-> NoTok, row |-> 0, a |-> NoAcct,
         purpose |-> None, del |-> {}, conc |-> FALSE]

NoLast == [op |-> "init", ident |-> None, secret |-> None, ip |-> None,
           ua |-> None, a |-> NoAcct, result |-> None,
           code |-> None, purpose |-> None, permission |-> None,
           new_password |-> None, confirm_password |-> None,
           new_pin |-> None, confirm_pin |-> None, arg |-> None]

\* a row as the model classes declare it (models/users.py, models/pos.py,
\* models/clients.py); a column the class does not map keeps its initial
\* value for ever
InitAccount(a) ==
    [status |-> "ACTIVE",
     is_active |-> TRUE,
     password_hash |-> IF a = <<"user", 2>> THEN LegacyHash("pw", 0)
                       ELSE hash_password("pw", 0),
     pin_hash |-> IF Kind(a) = "user" THEN NoHash ELSE hash_password("pin", 0),
     failed_attempts |-> 0,
     suspended_until |-> NoTime,
     last_login |-> NoTime,
     last_login_ip |-> None,
     last_login_user_agent |-> None,
     allowed_login_start |-> NoTime,
     allowed_login_end |-> NoTime]

\* Permissions values used by the routes of the model
Permissions == {"user:delete", "order:create", "order:cancel"}

\* APIKey.key values; "kx" matches no row
KeyNames == {"k1", "k2", "k3", "k4"}

\* the api_keys rows: k1 may create orders, k2 has no permission list
\* (NULL), k3 may do everything but was revoked, k4 may delete users and
\* cancel orders until it expires
InitApiKeys ==
    [k \in KeyNames |->
        [secret |-> hash_password(k, 0),
         is_active |-> k # "k3",
         permissions |-> IF k = "k1" THEN <<"order:create">>
                         ELSE IF k = "k2" THEN None
                         ELSE IF k = "k3"
                         THEN <<"user:delete", "order:create",
                                "order:cancel">>
                         ELSE <<"user:delete", "order:cancel">>,
         expires_at |-> IF k = "k4" THEN 1 ELSE NoTime,
         last_used |-> NoTime]]

\* user 2, whose UserRole is "user", holds the role named SUPER_ADMIN
InitUserRoles ==
    [a \in Accounts |-> IF a = <<"user", 2>> THEN {"SUPER_ADMIN"} ELSE {}]

InitAccess ==
    /\ api_keys = InitApiKeys
    /\ user_roles = InitUserRoles
    /\ role_permissions = [r \in {"SUPER_ADMIN"} |-> {}]

\* ------------------------------------------------------ clients' ledger
\* Client.id of the clients table
ClientIds == {2}

\* Order 1 of client 2 and its order_items: OrderItem.qty and unit_price
OrderIds == {1}
OrderClient(order_id) == 2
OrderItemIds == {1, 2}
OrderItemQty(order_item_id) == IF order_item_id = 1 THEN 2 ELSE 1
OrderItemPrice(order_item_id) == IF order_item_id = 1 THEN 1 ELSE 2

\* Client.current_balance before the operations of the model
InitBalance == 10

\* a transaction that is not open
NoTxn == [pc |-> "idle", id |-> 0, read |-> 0, amount |-> 0, items |-> <<>>]

InitLedgerEmpty ==
    /\ current_balance = [c \in ClientIds |-> InitBalance]
    /\ client_returns = <<>>
    /\ client_payments = <<>>
    /\ txn = [p \in Procs |-> NoTxn]

\* ------------------------------------------------------------- stock
\* Warehouse.id; warehouse 1 is the warehouse of POS 1; every row of the
\* model is of product variant 1
WarehouseIds == {1, 2}
InventoryIds == {1, 2}

\* no row with this id
NoRow == [warehouse_id |-> 0, quantity |-> 0, reserved_quantity |-> 0]

\* warehouse 1 holds 2 units of which 1 is reserved
InitInventory ==
    inventory = [i \in InventoryIds |->
                    IF i = 1
                    THEN [warehouse_id |-> 1, quantity |-> 2,
                          reserved_quantity |-> 1]
                    ELSE NoRow]

\* Procurement 1 of POS 1: one ProcurementItem of ProcurementQty units
ProcurementIds == {1}
ProcurementQty == 1
InitProcurement ==
    procurement_status =
        [i \in ProcurementIds |-> [status |-> "pending", receiving |-> 0]]

\* POSExpense.id; approved_by_id is NOT NULL
ExpenseIds == {1, 2}
InitExpenses ==
    expenses = [i \in ExpenseIds |-> [status |-> "draft", approved_by_id |-> 1]]

InitBusiness ==
    /\ InitLedgerEmpty
    /\ InitInventory
    /\ InitProcurement
    /\ InitExpenses

InitAuth ==
    /\ now = 0
    /\ InitAccess
    /\ acct = [a \in Accounts |-> InitAccount(a)]
    /\ refresh_tokens = <<>>
    /\ jwt_blacklist = {}
    /\ otp_codes = {}
    /\ nextJti = 1
    /\ nextOtp = 1
    /\ held = [access |-> {}, refresh |-> {}]
    /\ req = [p \in Procs |-> Idle]
    /\ hist = [redeemed |-> {}, loggedOut |-> {}, revoked |-> {},
               wrong |-> [a \in Accounts |-> 0],
               wrongAt |-> [a \in Accounts |-> NoTime],
               consumed |-> {}, presented |-> NoTok, applied |-> 0,
               approved |-> {}, rejected |-> {}, received |-> 0]
    /\ last = NoLast

Init == InitAuth /\ InitBusiness

\* db.commit() of a loaded row: only mapped columns are written
Persist(a, old, new) ==
    [f \in DOMAIN old |-> IF hasattr(a, f) THEN new[f] ELSE old[f]]

\* ------------------------------------------------------ SecurityUtils
\* register_failed_attempt: the new row (committed by the function)
register_failed_attempt(rec, a, t) ==
    IF ~hasattr(a, "failed_attempts") THEN rec
    ELSE LET n == rec.failed_attempts + 1
         IN [rec EXCEPT !.failed_attempts = n,
                        !.suspended_until =
                            IF n >= MAX_FAIL THEN t + SUSP_MIN ELSE @]

\* now.time(): the clock within one day
TimeOfDay(t) == t

\* a window test without the branch for start > end: C13 must fail with it
InWindow_Mut(start, end, current) == start <= current /\ current <= end

InWindow(start, end, current) ==
    IF start <= end THEN start <= current /\ current <= end
    ELSE current >= start \/ current <= end

\* enforce_login_policies: the error raised (None when it returns) and the
\* account object as the function leaves it in memory
enforce_login_policies(rec, a, t) ==
    IF hasattr(a, "status") /\ rec.status # "ACTIVE"
    THEN [err |-> "Account not active", rec |-> rec]
    ELSE IF hasattr(a, "is_active") /\ ~rec.is_active
    THEN [err |-> "Account not active", rec |-> rec]
    ELSE IF hasattr(a, "status") /\ rec.status \notin {"APPROVED", "ACTIVE"}
    THEN [err |-> "Account not active", rec |-> rec]
    ELSE IF hasattr(a, "suspended_until") /\ rec.suspended_until # NoTime
            /\ t < rec.suspended_until
    THEN [err |-> "Account suspended", rec |-> rec]
    ELSE
      LET r1 == IF hasattr(a, "suspended_until") /\ rec.suspended_until # NoTime
                THEN [rec EXCEPT !.suspended_until = NoTime,
                                 !.failed_attempts =
                                     IF hasattr(a, "failed_attempts")
                                     THEN 0 ELSE @]
                ELSE rec
          windowed == /\ hasattr(a, "allowed_login_start")
                      /\ hasattr(a, "allowed_login_end")
                      /\ r1.allowed_login_start # NoTime
                      /\ r1.allowed_login_end # NoTime
      IN IF windowed /\ ~InWindow(r1.allowed_login_start,
                                  r1.allowed_login_end, TimeOfDay(t))
         THEN [err |-> "Login not allowed at this time", rec |-> r1]
         ELSE [err |-> None, rec |-> r1]

\* SecurityUtils.update_login_metadata (commits)
update_login_metadata(rec, a, ip, ua, t) ==
    Persist(a, rec,
        [rec EXCEPT !.failed_attempts = 0,
                    !.suspended_until = NoTime,
                    !.last_login = t,
                    !.last_login_ip = ip,
                    !.last_login_user_agent = Trunc255(ua)])

\* ------------------------------------------------------- AuthService
\* an authenticate that enforces the policies before it verifies the
\* secret: C14 must fail with it
AuthAccount_Mut(db, a, field, secret, ip, ua, t) ==
    LET pol == enforce_login_policies(db[a], a, t)
    IN IF pol.err # None
       THEN [result |-> pol.err, a |-> a, db |-> db]
       ELSE IF ~verify_password(secret, db[a][field])
       THEN [result |-> None, a |-> a,
             db |-> [db EXCEPT ![a] = register_failed_attempt(@, a, t)]]
       ELSE [result |-> "ok", a |-> a,
             db |-> [db EXCEPT ![a] =
                        update_login_metadata(pol.rec, a, ip, ua, t)]]

\* the part of authenticate after the account row was found with a stored
\* hash in column `field`: verify, count the failure, upgrade a legacy hash,
\* enforce the policies, record the login.  db is the committed table.
AuthAccount(db, a, field, secret, ip, ua, t) ==
    IF ~verify_password(secret, db[a][field])
    THEN [result |-> None, a |-> a,
          db |-> [db EXCEPT ![a] = register_failed_attempt(@, a, t)]]
    ELSE
      LET up == IF IsLegacyMatch(secret, db[a][field])
                THEN [db[a] EXCEPT ![field] = hash_password(secret, 1)]
                ELSE db[a]
          pol == enforce_login_policies(up, a, t)
      IN IF pol.err # None
         THEN [result |-> pol.err, a |-> a, db |-> [db EXCEPT ![a] = up]]
         ELSE [result |-> "ok", a |-> a,
               db |-> [db EXCEPT ![a] =
                          update_login_metadata(pol.rec, a, ip, ua, t)]]

\* db.query(model).filter(model.phone == identifier).first()
ByPhone(kind, ident) ==
    {a \in Accounts : Kind(a) = kind /\ Identifier(a) = ident}

\* db.query(User).filter(User.email.ilike(identifier)).first()
ByEmail(ident) ==
    {a \in Accounts : Kind(a) = "user" /\ Lower(Identifier(a)) = Lower(ident)}

\* db.query(POSUser).filter(POSUser.email.ilike(identifier)).first()
PosByEmail(ident) ==
    {a \in Accounts : Kind(a) = "pos" /\ Lower(PosEmail) = Lower(ident)}

\* for model in (POSUser, Client): the first row found that has the hash
FirstWithHash(db, ident, field) ==
    LET pos == {a \in ByPhone("pos", ident) : db[a][field] # NoHash}
        cli == {a \in ByPhone("client", ident) : db[a][field] # NoHash}
    IN IF pos # {} THEN pos ELSE cli

authenticate(db, ident, secret, mode, ip, ua, t) ==
    IF mode = "password" /\ ident \in Emails
    THEN IF ByEmail(ident) = {} \/ (\A a \in ByEmail(ident) :
                                       db[a].password_hash = NoHash)
         THEN [result |-> None, a |-> NoAcct, db |-> db]
         ELSE AuthAccount(db, CHOOSE a \in ByEmail(ident) : TRUE,
                          "password_hash", secret, ip, ua, t)
    ELSE
      LET field == IF mode = "password" THEN "password_hash" ELSE "pin_hash"
          found == FirstWithHash(db, ident, field)
      IN IF found = {}
         THEN [result |-> None, a |-> NoAcct, db |-> db]
         ELSE AuthAccount(db, CHOOSE a \in found : TRUE, field, secret,
                          ip, ua, t)

is_otp_required(user, current_ip, current_ua, t) ==
    \/ user.last_login = NoTime
    \/ t - user.last_login >= STEPUP_AGE
    \/ user.last_login_ip # None /\ user.last_login_ip # current_ip
    \/ user.last_login_user_agent # None
         /\ user.last_login_user_agent # current_ua

\* the OTPCode rows generate_otp deletes: unused ones of the pair
UnusedOf(rows, a, purpose) ==
    {r \in rows : r.account_type = Kind(a) /\ r.account_id = Id(a)
                  /\ r.purpose = purpose /\ ~r.is_used}

NewOtp(id, a, code, purpose, t) ==
    [id |-> id, account_type |-> Kind(a), account_id |-> Id(a),
     user_id |-> NoId, code |-> code, purpose |-> purpose,
     expires_at |-> t + OTP_EXPIRE, is_used |-> FALSE]

\* AuthService.generate_otp / OTPService.generate_otp: the table afterwards
generate_otp(rows, id, a, code, purpose, t) ==
    (rows \ UnusedOf(rows, a, purpose)) \cup {NewOtp(id, a, code, purpose, t)}

\* the RefreshToken row create_tokens inserts
NewRefreshRow(a, rt, salt, t) ==
    [account_type |-> Kind(a), account_id |-> Id(a),
     token |-> hash_refresh_token(rt, salt),
     expires_at |-> t + REFRESH_TOKEN_EXPIRE, is_active |-> TRUE]

\* create_tokens(db, account, device_info)
create_tokens(a) ==
    LET at == create_access_token(a, now, nextJti)
        rt == create_refresh_token(a, now)
    IN /\ Len(refresh_tokens) < MaxRows
       /\ refresh_tokens' = Append(refresh_tokens,
              NewRefreshRow(a, rt, Len(refresh_tokens) + 1, now))
       /\ nextJti' = nextJti + 1
       /\ held' = [access |-> held.access \cup {at},
                   refresh |-> held.refresh \cup {rt}]

MintedAt(a) == create_access_token(a, now, nextJti)
MintedRt(a) == create_refresh_token(a, now)

\* the route's own metadata write before create_tokens (full user-agent)
RouteMetadata(rec, a, ip, ua, t) ==
    Persist(a, rec, [rec EXCEPT !.last_login = t, !.last_login_ip = ip,
                                !.last_login_user_agent = ua])

\* wrong secrets are counted without limit; the model stops counting here
AttemptsCap == MAX_FAIL + 1

CountsBelowCap(db) == \A a \in Accounts : db[a].failed_attempts <= AttemptsCap

\* POST /auth/login/password
login_password(ident, secret, ip, ua, code) ==
    LET out == authenticate(acct, ident, secret, "password", ip, ua, now)
        a == out.a
        base == [NoLast EXCEPT !.op = "login_password", !.ident = ident,
                    !.secret = secret, !.ip = ip, !.ua = ua, !.a = a]
    IN /\ CountsBelowCap(out.db)
       /\ IF out.result = None
          THEN /\ acct' = out.db
               /\ last' = [base EXCEPT !.result = "Invalid credentials"]
               /\ UNCHANGED <<refresh_tokens, otp_codes, nextJti, nextOtp, held>>
          ELSE IF out.result # "ok"
          THEN /\ acct' = out.db
               /\ last' = [base EXCEPT !.result = out.result]
               /\ UNCHANGED <<refresh_tokens, otp_codes, nextJti, nextOtp, held>>
          ELSE IF Kind(a) = "user" /\ is_otp_required(out.db[a], ip, ua, now)
          THEN /\ nextOtp <= MaxOtp
               /\ acct' = out.db
               /\ otp_codes' = generate_otp(otp_codes, nextOtp, a, code,
                                            "login", now)
               /\ nextOtp' = nextOtp + 1
               /\ last' = [base EXCEPT !.result = "otp_required",
                                       !.code = code, !.purpose = "login"]
               /\ UNCHANGED <<refresh_tokens, nextJti, held>>
          ELSE /\ acct' = [out.db EXCEPT
                              ![a] = RouteMetadata(@, a, ip, ua, now)]
               /\ create_tokens(a)
               /\ last' = [base EXCEPT !.result = "tokens"]
               /\ UNCHANGED <<otp_codes, nextOtp>>
       /\ UNCHANGED <<business, access, now, jwt_blacklist, req>>

\* POST /auth/login/pin
login_pin(ident, secret, ip, ua) ==
    LET out == authenticate(acct, ident, secret, "pin", ip, ua, now)
        a == out.a
        base == [NoLast EXCEPT !.op = "login_pin", !.ident = ident,
                    !.secret = secret, !.ip = ip, !.ua = ua, !.a = a]
    IN /\ CountsBelowCap(out.db)
       /\ IF out.result = None
          THEN /\ acct' = out.db
               /\ last' = [base EXCEPT !.result = "Invalid credentials"]
               /\ UNCHANGED <<refresh_tokens, nextJti, held>>
          ELSE IF out.result # "ok"
          THEN /\ acct' = out.db
               /\ last' = [base EXCEPT !.result = out.result]
               /\ UNCHANGED <<refresh_tokens, nextJti, held>>
          ELSE /\ acct' = [out.db EXCEPT
                              ![a] = RouteMetadata(@, a, ip, ua, now)]
               /\ create_tokens(a)
               /\ last' = [base EXCEPT !.result = "tokens"]
       /\ UNCHANGED <<business, access, now, jwt_blacklist, otp_codes, nextOtp, req>>

\* the clock advances
Tick ==
    /\ now < MaxTime
    /\ now' = now + 1
    /\ UNCHANGED <<business, access, acct, refresh_tokens, jwt_blacklist, otp_codes,
                   nextJti, nextOtp, held, req, last>>

\* ------------------------------------------------- access-token validation
\* JWTUtils.is_blacklisted
is_blacklisted(bl, jti) == \E b \in bl : b.jti = jti

\* AuthService.validate_access_token: the account, or NoAcct for None
validate_access_token(bl, token, t) ==
    IF ~decode_access_token(token, t) THEN NoAcct
    ELSE IF token.jti # 0 /\ is_blacklisted(bl, token.jti) THEN NoAcct
    ELSE IF token.account_type \notin Kinds THEN NoAcct
    ELSE IF <<token.account_type, token.sub>> \notin Accounts THEN NoAcct
    ELSE <<token.account_type, token.sub>>

\* account.__class__.__name__.lower()
ClassName(a) ==
    IF Kind(a) = "user" THEN "user"
    ELSE IF Kind(a) = "pos" THEN "posuser"
    ELSE "client"

\* a blacklist_token that records the subject in place of the token id:
\* C4 must fail with it
blacklist_token_Mut(token, a) ==
    [jti |-> token.sub, account_id |-> Id(a), account_type |-> ClassName(a)]

\* SecurityUtils.blacklist_token: the row added (jti = payload.jti or sub)
blacklist_token(token, a) ==
    [jti |-> IF token.jti # 0 THEN token.jti ELSE token.sub,
     account_id |-> Id(a), account_type |-> ClassName(a)]

\* db.query(RefreshToken).filter(account_id == account.id,
\*     is_active == True).update({"is_active": False})
DeactivateFor(rows, a) ==
    [i \in DOMAIN rows |->
        IF rows[i].account_id = Id(a) /\ rows[i].is_active
        THEN [rows[i] EXCEPT !.is_active = FALSE] ELSE rows[i]]

\* AuthService.logout_user
logout_user(a, token) ==
    /\ jwt_blacklist' = jwt_blacklist \cup {blacklist_token(token, a)}
    /\ refresh_tokens' = DeactivateFor(refresh_tokens, a)

\* AuthService.logout_all_devices
logout_all_devices(a, token) ==
    /\ jwt_blacklist' = jwt_blacklist \cup {blacklist_token(token, a)}
    /\ refresh_tokens' = DeactivateFor(refresh_tokens, a)

\* the raw refresh tokens issued to account a so far (each row stores the
\* hash of one)
IssuedTo(rows, a) ==
    {rows[i].token[2] : i \in {j \in DOMAIN rows :
        rows[j].account_type = Kind(a) /\ rows[j].account_id = Id(a)}}

\* the Authorization header: HTTPBearer accepts the scheme in any case, the
\* routes then test auth_header.startswith("Bearer ")
Schemes == {"Bearer", "bearer"}

\* POST /auth/logout with the header `scheme token`
logout(token, scheme) ==
    LET a == validate_access_token(jwt_blacklist, token, now)
        base == [NoLast EXCEPT !.op = "logout", !.a = a]
    IN /\ IF a = NoAcct
          THEN /\ last' = [base EXCEPT !.result = "Invalid or expired token"]
               /\ UNCHANGED <<jwt_blacklist, refresh_tokens>>
          ELSE IF scheme # "Bearer"
          THEN /\ last' = [base EXCEPT
                               !.result = "Invalid authorization header"]
               /\ UNCHANGED <<jwt_blacklist, refresh_tokens>>
          ELSE /\ logout_user(a, token)
               /\ last' = [base EXCEPT !.result = "ok"]
       /\ UNCHANGED <<business, access, now, acct, otp_codes, nextJti, nextOtp, held, req>>

\* POST /auth/logout-all with the header `scheme token`; without the
\* "Bearer " prefix the service is called with no token and blacklist_token
\* raises 400 before any row is touched
logout_all(token, scheme) ==
    LET a == validate_access_token(jwt_blacklist, token, now)
        base == [NoLast EXCEPT !.op = "logout_all", !.a = a]
    IN /\ IF a = NoAcct
          THEN /\ last' = [base EXCEPT !.result = "Invalid or expired token"]
               /\ UNCHANGED <<jwt_blacklist, refresh_tokens>>
          ELSE IF scheme # "Bearer"
          THEN /\ last' = [base EXCEPT !.result = "Invalid token"]
               /\ UNCHANGED <<jwt_blacklist, refresh_tokens>>
          ELSE /\ logout_all_devices(a, token)
               /\ last' = [base EXCEPT !.result = "ok"]
       /\ UNCHANGED <<business, access, now, acct, otp_codes, nextJti, nextOtp, held, req>>

\* a refresh_tokens query that forgets RefreshToken.is_active == True: C11
\* must fail with it
MatchingRows_Mut(rows, token, t) ==
    {i \in DOMAIN rows :
        /\ rows[i].account_type = token.account_type
        /\ rows[i].account_id = token.sub
        /\ rows[i].expires_at > t
        /\ verify_refresh_token_hash(token, rows[i].token)}

\* ------------------------------------------------------------ refresh
\* the rows refresh_tokens can redeem `token` against: active, unexpired
\* rows of the token's subject whose stored hash verifies
MatchingRows(rows, token, t) ==
    {i \in DOMAIN rows :
        /\ rows[i].account_type = token.account_type
        /\ rows[i].account_id = token.sub
        /\ rows[i].is_active
        /\ rows[i].expires_at > t
        /\ verify_refresh_token_hash(token, rows[i].token)}

\* the checks of refresh_tokens before it writes: the row it will
\* invalidate (0 when the call returns None)
RefreshTarget(rows, token, t) ==
    IF ~verify_refresh_token(token, t) THEN {}
    ELSE IF token.account_type \notin Kinds THEN {}
    ELSE IF <<token.account_type, token.sub>> \notin Accounts THEN {}
    ELSE MatchingRows(rows, token, t)

\* AuthService.refresh_tokens as one transaction; POST /auth/refresh
refresh_tokens_call(token) ==
    LET target == RefreshTarget(refresh_tokens, token, now)
        a == <<token.account_type, token.sub>>
        base == [NoLast EXCEPT !.op = "refresh"]
    IN /\ IF target = {}
          THEN /\ last' = [base EXCEPT
                              !.result = "Invalid or expired refresh token"]
               /\ UNCHANGED <<refresh_tokens, nextJti, held>>
          ELSE \E i \in target :
               LET at == MintedAt(a)
                   rt == MintedRt(a)
               IN /\ Len(refresh_tokens) < MaxRows
                  /\ refresh_tokens' = Append(
                         [refresh_tokens EXCEPT ![i].is_active = FALSE],
                         NewRefreshRow(a, rt, Len(refresh_tokens) + 1, now))
                  /\ nextJti' = nextJti + 1
                  /\ held' = [access |-> held.access \cup {at},
                              refresh |-> held.refresh \cup {rt}]
                  /\ last' = [base EXCEPT !.result = "tokens", !.a = a]
       /\ UNCHANGED <<business, access, now, acct, jwt_blacklist, otp_codes, nextOtp, req>>

\* ------------------------------------------------------------------ OTP
\* the rows a verification query returns for an account: same code and
\* purpose, unused, unexpired
OtpMatch(rows, a, code, purpose, t) ==
    {r \in rows : /\ r.account_type = Kind(a)
                  /\ r.account_id = Id(a)
                  /\ r.code = code
                  /\ r.purpose = purpose
                  /\ ~r.is_used
                  /\ r.expires_at > t}

\* the backward-compatible query of AuthService.verify_otp on user_id
LegacyOtpMatch(rows, a, code, purpose, t) ==
    {r \in rows : /\ r.user_id = Id(a)
                  /\ r.code = code
                  /\ r.purpose = purpose
                  /\ ~r.is_used
                  /\ r.expires_at > t}

Hits(accounts, rows, code, purpose, t) ==
    UNION {{<<a, r>> : r \in OtpMatch(rows, a, code, purpose, t)} :
              a \in accounts}

\* AuthService.verify_otp(db, email, code, purpose): the <<account, row>>
\* pairs it can return and consume; empty when it returns None
AuthService_verify_otp(rows, email, code, purpose, t) ==
    LET e == Lower(email)
        users == {a \in Accounts : Kind(a) = "user" /\ Identifier(a) = e}
        new == Hits(users, rows, code, purpose, t)
        old == UNION {{<<a, r>> :
                          r \in LegacyOtpMatch(rows, a, code, purpose, t)} :
                      a \in users}
        pos == {a \in Accounts : Kind(a) = "pos" /\ PosEmail = e}
    IN IF new # {} THEN new
       ELSE IF old # {} THEN old
       ELSE Hits(pos, rows, code, purpose, t)

\* OTPService.verify_otp(db, identifier, code, purpose)
OTPService_verify_otp(rows, identifier, code, purpose, t) ==
    LET ident == Lower(identifier)
    IN IF ident \in Emails
       THEN IF Hits(ByEmail(ident), rows, code, purpose, t) # {}
            THEN Hits(ByEmail(ident), rows, code, purpose, t)
            ELSE Hits(PosByEmail(ident), rows, code, purpose, t)
       ELSE Hits(ByPhone("pos", ident), rows, code, purpose, t)

\* a verification that forgets otp.is_used = True: C6 must fail with it
ConsumeOtp_Mut(rows, a, r) ==
    (rows \ {r}) \cup {[r EXCEPT !.account_type = Kind(a),
                                 !.account_id = Id(a)]}

\* what a successful verification commits: the row is used (a row found by
\* user_id is moved to the polymorphic columns), last_login is stamped
ConsumeOtp(rows, a, r) ==
    (rows \ {r}) \cup {[r EXCEPT !.is_used = TRUE,
                                 !.account_type = Kind(a),
                                 !.account_id = Id(a)]}

StampLogin(rec, a, t) == Persist(a, rec, [rec EXCEPT !.last_login = t])

\* a direct call of AuthService.verify_otp with an e-mail, a code and a
\* purpose
auth_verify_otp(email, code, purpose) ==
    LET hits == AuthService_verify_otp(otp_codes, email, code, purpose, now)
        base == [NoLast EXCEPT !.op = "auth_verify_otp", !.ident = email,
                               !.code = code, !.purpose = purpose]
    IN /\ IF hits = {}
          THEN /\ last' = [base EXCEPT !.result = "Invalid or expired OTP"]
               /\ UNCHANGED <<acct, otp_codes>>
          ELSE \E h \in hits :
                  /\ otp_codes' = ConsumeOtp(otp_codes, h[1], h[2])
                  /\ acct' = [acct EXCEPT ![h[1]] = StampLogin(@, h[1], now)]
                  /\ last' = [base EXCEPT !.result = "ok", !.a = h[1]]
       /\ UNCHANGED <<business, access, now, refresh_tokens, jwt_blacklist, nextJti, nextOtp,
                      held, req>>

\* the account request_password_reset sends a code to
ResetAccount(ident) ==
    IF ident \in Emails
    THEN IF ByEmail(ident) # {} THEN ByEmail(ident) ELSE PosByEmail(ident)
    ELSE ByPhone("pos", ident)

\* POST /auth/password-reset/request
request_password_reset(ident, code) ==
    LET found == ResetAccount(ident)
        base == [NoLast EXCEPT !.op = "request_password_reset",
                               !.ident = ident, !.purpose = "password_reset"]
    IN /\ IF found = {}
          THEN /\ last' = [base EXCEPT !.result =
                   "If an account exists, reset instructions have been sent"]
               /\ UNCHANGED <<otp_codes, nextOtp>>
          ELSE \E a \in found :
                  /\ nextOtp <= MaxOtp
                  /\ otp_codes' = generate_otp(otp_codes, nextOtp, a, code,
                                               "password_reset", now)
                  /\ nextOtp' = nextOtp + 1
                  /\ last' = [base EXCEPT !.result = "Reset instructions sent",
                                          !.a = a, !.code = code]
       /\ UNCHANGED <<business, access, now, acct, refresh_tokens, jwt_blacklist, nextJti,
                      held, req>>

\* POST /auth/password-reset/verify
verify_and_reset_password(ident, code, new_password) ==
    LET hits == OTPService_verify_otp(otp_codes, ident, code,
                                      "password_reset", now)
        base == [NoLast EXCEPT !.op = "verify_and_reset_password",
                               !.ident = ident, !.code = code,
                               !.purpose = "password_reset"]
    IN /\ IF TooShort(new_password)
          THEN /\ last' = [base EXCEPT !.result =
                              "Password must be at least 8 characters"]
               /\ UNCHANGED <<acct, otp_codes>>
          ELSE IF hits = {}
          THEN /\ last' = [base EXCEPT !.result = "Invalid or expired OTP"]
               /\ UNCHANGED <<acct, otp_codes>>
          ELSE \E h \in hits :
                  /\ otp_codes' = ConsumeOtp(otp_codes, h[1], h[2])
                  /\ acct' = [acct EXCEPT ![h[1]] =
                        [StampLogin(@, h[1], now) EXCEPT
                            !.password_hash = hash_password(new_password, 2)]]
                  /\ last' = [base EXCEPT !.result = "ok", !.a = h[1]]
       /\ UNCHANGED <<business, access, now, refresh_tokens, jwt_blacklist, nextJti, nextOtp,
                      held, req>>

\* ------------------------------------------- generate_otp, two sessions
\* reset_delete is request_password_reset up to the DELETE of generate_otp:
\* it sees the committed rows and waits for a row another open transaction
\* is deleting.  reset_commit is db.add(otp_record); db.commit().
reset_delete(p, ident) ==
    LET found == ResetAccount(ident)
    IN /\ req[p].pc = "idle"
       /\ found # {}
       /\ \E a \in found :
            LET del == UnusedOf(otp_codes, a, "password_reset")
            IN /\ \A q \in Procs \ {p} : req[q].del \cap del = {}
               /\ req' = [req EXCEPT ![p] =
                     [Idle EXCEPT !.pc = "otp_deleted", !.a = a,
                                  !.purpose = "password_reset", !.del = del]]
       /\ last' = [NoLast EXCEPT !.op = "reset_delete", !.ident = ident]
       /\ UNCHANGED <<business, access, now, acct, refresh_tokens, jwt_blacklist, otp_codes,
                      nextJti, nextOtp, held>>

reset_commit(p, code) ==
    /\ req[p].pc = "otp_deleted"
    /\ nextOtp <= MaxOtp
    /\ otp_codes' = (otp_codes \ req[p].del) \cup
                       {NewOtp(nextOtp, req[p].a, code, req[p].purpose, now)}
    /\ nextOtp' = nextOtp + 1
    /\ req' = [req EXCEPT ![p] = Idle]
    /\ last' = [NoLast EXCEPT !.op = "request_password_reset",
                   !.a = req[p].a, !.code = code,
                   !.purpose = req[p].purpose,
                   !.result = "Reset instructions sent"]
    /\ UNCHANGED <<business, access, now, acct, refresh_tokens, jwt_blacklist, nextJti, held>>

\* ------------------------------------------------------ change password
\* a service that never verifies the old password: C19 must fail with it
change_password_service_Mut(db, a, old_password, new_password, confirm_password) ==
    IF new_password # confirm_password \/ TooShort(new_password)
    THEN [ok |-> FALSE, db |-> db]
    ELSE IF a \notin Accounts \/ ~hasattr(a, "password_hash")
    THEN [ok |-> FALSE, db |-> db]
    ELSE [ok |-> TRUE,
          db |-> [db EXCEPT ![a].password_hash =
                     hash_password(new_password, 3)]]

\* AuthService.change_password: its return value and the accounts it
\* commits. A NULL or empty password_hash is NoHash, an empty old_password
\* is "".
change_password_service(db, a, old_password, new_password, confirm_password) ==
    IF new_password # confirm_password
    THEN [ok |-> FALSE, db |-> db]
    ELSE IF TooShort(new_password)
    THEN [ok |-> FALSE, db |-> db]
    ELSE IF a \notin Accounts
    THEN [ok |-> FALSE, db |-> db]
    ELSE IF ~hasattr(a, "password_hash")
    THEN [ok |-> FALSE, db |-> db]
    ELSE IF db[a].password_hash = NoHash /\ old_password # ""
    THEN [ok |-> FALSE, db |-> db]
    ELSE IF /\ db[a].password_hash # NoHash
            /\ ~verify_password(old_password, db[a].password_hash)
    THEN [ok |-> FALSE, db |-> db]
    ELSE [ok |-> TRUE,
          db |-> [db EXCEPT ![a].password_hash =
                     hash_password(new_password, 3)]]

\* POST /auth/change-password with the bearer token `token`
change_password(token, old_password, new_password, confirm_password) ==
    LET a == validate_access_token(jwt_blacklist, token, now)
        r == change_password_service(acct, a, old_password, new_password,
                                     confirm_password)
        base == [NoLast EXCEPT !.op = "change_password", !.a = a,
                    !.secret = old_password,
                    !.new_password = new_password,
                    !.confirm_password = confirm_password]
    IN /\ IF token = NoTok
          THEN /\ last' = [base EXCEPT !.result = "Authentication required"]
               /\ UNCHANGED acct
          ELSE IF a = NoAcct
          THEN /\ last' = [base EXCEPT !.result = "Invalid or expired token"]
               /\ UNCHANGED acct
          ELSE IF ~r.ok
          THEN /\ last' = [base EXCEPT !.result = "Password change failed"]
               /\ UNCHANGED acct
          ELSE /\ acct' = r.db
               /\ last' = [base EXCEPT
                              !.result = "Password changed successfully"]
       /\ UNCHANGED <<business, access, now, refresh_tokens, jwt_blacklist, otp_codes,
                      nextJti, nextOtp, held, req>>

\* ------------------------------------------------------------ change PIN
\* the PINs sent: new_pin.isdigit() and len(new_pin) in [4, 6]
Pins == {"", "pin", "1234", "123456", "12345", "12ab"}
IsDigit(pin) == pin \in {"1234", "123456", "12345"}
PinLen(pin) ==
    IF pin = "" THEN 0
    ELSE IF pin = "pin" THEN 3
    ELSE IF pin = "12345" THEN 5
    ELSE IF pin = "123456" THEN 6
    ELSE 4

\* AuthService.change_pin: its return value and the accounts it commits
change_pin_service(db, a, old_pin, new_pin, confirm_pin) ==
    IF Kind(a) \notin {"pos", "client"}
    THEN [ok |-> FALSE, db |-> db]
    ELSE IF new_pin # confirm_pin
    THEN [ok |-> FALSE, db |-> db]
    ELSE IF ~IsDigit(new_pin)
    THEN [ok |-> FALSE, db |-> db]
    ELSE IF PinLen(new_pin) \notin {4, 6}
    THEN [ok |-> FALSE, db |-> db]
    ELSE IF a \notin Accounts
    THEN [ok |-> FALSE, db |-> db]
    ELSE IF ~hasattr(a, "pin_hash")
    THEN [ok |-> FALSE, db |-> db]
    ELSE IF db[a].pin_hash = NoHash /\ old_pin # ""
    THEN [ok |-> FALSE, db |-> db]
    ELSE IF /\ db[a].pin_hash # NoHash
            /\ ~verify_password(old_pin, db[a].pin_hash)
    THEN [ok |-> FALSE, db |-> db]
    ELSE [ok |-> TRUE,
          db |-> [db EXCEPT ![a].pin_hash = hash_password(new_pin, 4)]]

\* a route that sends every account kind to a PIN assignment with no check
\* of the kind: C21 must fail with it
change_pin_Mut(token, old_pin, new_pin, confirm_pin) ==
    LET a == validate_access_token(jwt_blacklist, token, now)
        base == [NoLast EXCEPT !.op = "change_pin", !.a = a,
                    !.secret = old_pin, !.new_pin = new_pin,
                    !.confirm_pin = confirm_pin]
    IN /\ IF a = NoAcct \/ new_pin # confirm_pin
          THEN /\ last' = [base EXCEPT !.result = "PIN change failed"]
               /\ UNCHANGED acct
          ELSE /\ acct' = [acct EXCEPT ![a].pin_hash =
                              hash_password(new_pin, 4)]
               /\ last' = [base EXCEPT !.result = "PIN changed successfully"]
       /\ UNCHANGED <<business, access, now, refresh_tokens, jwt_blacklist, otp_codes,
                      nextJti, nextOtp, held, req>>

\* POST /auth/change-pin with the bearer token `token`
change_pin(token, old_pin, new_pin, confirm_pin) ==
    LET a == validate_access_token(jwt_blacklist, token, now)
        r == change_pin_service(acct, a, old_pin, new_pin, confirm_pin)
        base == [NoLast EXCEPT !.op = "change_pin", !.a = a,
                    !.secret = old_pin, !.new_pin = new_pin,
                    !.confirm_pin = confirm_pin]
    IN /\ IF token = NoTok
          THEN /\ last' = [base EXCEPT !.result = "Authentication required"]
               /\ UNCHANGED acct
          ELSE IF a = NoAcct
          THEN /\ last' = [base EXCEPT !.result = "Invalid or expired token"]
               /\ UNCHANGED acct
          ELSE IF Kind(a) \notin {"pos", "client"}
          THEN /\ last' = [base EXCEPT !.result =
                      "PIN change only available for POS users and clients"]
               /\ UNCHANGED acct
          ELSE IF ~r.ok
          THEN /\ last' = [base EXCEPT !.result = "PIN change failed"]
               /\ UNCHANGED acct
          ELSE /\ acct' = r.db
               /\ last' = [base EXCEPT !.result = "PIN changed successfully"]
       /\ UNCHANGED <<business, access, now, refresh_tokens, jwt_blacklist, otp_codes,
                      nextJti, nextOtp, held, req>>

\* ------------------------------------------------------ access control
\* SecurityUtils.verify_api_secret
verify_api_secret(plain_secret, hashed_secret) ==
    verify_password(plain_secret, hashed_secret)

\* AuthService.validate_api_key: the key row found (None for None) and the
\* table it commits (last_used)
validate_api_key(keys, api_key, api_secret, t) ==
    IF api_key \notin DOMAIN keys \/ ~keys[api_key].is_active
    THEN [key |-> None, keys |-> keys]
    ELSE IF keys[api_key].expires_at # NoTime /\ keys[api_key].expires_at < t
    THEN [key |-> None, keys |-> keys]
    ELSE IF ~verify_api_secret(api_secret, keys[api_key].secret)
    THEN [key |-> None, keys |-> keys]
    ELSE [key |-> api_key,
          keys |-> [keys EXCEPT ![api_key].last_used = t]]

\* api_key.permissions or []
PermissionList(row) ==
    IF row.permissions = None THEN {}
    ELSE {row.permissions[i] : i \in DOMAIN row.permissions}

\* a permission list that reads a missing list as "everything": C18 must
\* fail with it
require_permission_Mut(keys, required_permission, api_key, api_secret, t) ==
    LET v == validate_api_key(keys, api_key, api_secret, t)
    IN IF api_key = None \/ api_secret = None
       THEN [err |-> "Field required", keys |-> keys]
       ELSE IF v.key = None
       THEN [err |-> "Invalid API key or secret", keys |-> v.keys]
       ELSE IF keys[v.key].permissions # None
               /\ required_permission \notin PermissionList(keys[v.key])
       THEN [err |-> "Insufficient permissions", keys |-> v.keys]
       ELSE [err |-> None, keys |-> v.keys]

\* require_permission(required_permission) with its dependency get_api_key:
\* the X-API-Key and X-API-Secret headers are required; the error raised
\* (None when the request is admitted) and the api_keys table committed
require_permission(keys, required_permission, api_key, api_secret, t) ==
    LET v == validate_api_key(keys, api_key, api_secret, t)
    IN IF api_key = None \/ api_secret = None
       THEN [err |-> "Field required", keys |-> keys]
       ELSE IF v.key = None
       THEN [err |-> "Invalid API key or secret", keys |-> v.keys]
       ELSE IF required_permission \notin PermissionList(keys[v.key])
       THEN [err |-> "Insufficient permissions", keys |-> v.keys]
       ELSE [err |-> None, keys |-> v.keys]

\* the values of UserRole
UserRoleValues ==
    {"admin", "checker", "maker", "user", "partner", "rh", "finance"}

\* require_role(allowed_user_roles, allowed_client_roles) with its
\* dependency get_current_account: the error raised, None when admitted.
\* account.role is compared with the listed values as they are written;
\* the 403 message reads r.value of every listed role, which a role listed
\* as a plain string does not have.
require_role(allowed_user_roles, allowed_client_roles, bearer) ==
    LET a == validate_access_token(jwt_blacklist, bearer, now)
    IN IF bearer = NoTok THEN "Authentication required"
       ELSE IF a = NoAcct THEN "Invalid or expired token"
       ELSE IF Kind(a) = "client"
       THEN IF allowed_client_roles = {}
            THEN "Clients not allowed for this route"
            ELSE IF Role(a) \notin allowed_client_roles
            THEN "Client role not authorized"
            ELSE None
       ELSE IF Kind(a) = "user"
       THEN IF Role(a) = "admin" THEN None
            ELSE IF allowed_user_roles = {}
            THEN "Users not allowed for this route"
            ELSE IF Role(a) \notin allowed_user_roles
            THEN IF allowed_user_roles \subseteq UserRoleValues
                 THEN "User role not authorized"
                 ELSE "Internal Server Error"
            ELSE None
       ELSE "Unknown account type"

\* a route guarded by Depends(require_permission(required_permission)), up
\* to the body of its handler
permission_checker(required_permission, api_key, api_secret) ==
    LET r == require_permission(api_keys, required_permission, api_key,
                                api_secret, now)
    IN /\ api_keys' = r.keys
       /\ last' = [NoLast EXCEPT !.op = "permission_checker",
                      !.ident = api_key, !.secret = api_secret,
                      !.permission = required_permission,
                      !.result = IF r.err = None THEN "admitted" ELSE r.err]
       /\ UNCHANGED <<business, user_roles, role_permissions, now, acct,
                      refresh_tokens, jwt_blacklist, otp_codes, nextJti,
                      nextOtp, held, req>>

\* DELETE /users/users/{user_id}: require_permission(Permissions.DELETE_USER)
\* and UserService.delete_user
delete_user(api_key, api_secret, user_id) ==
    LET r == require_permission(api_keys, "user:delete", api_key,
                                api_secret, now)
        user == <<"user", user_id>>
    IN /\ api_keys' = r.keys
       /\ IF r.err # None
          THEN /\ last' = [NoLast EXCEPT !.op = "delete_user",
                              !.ident = api_key, !.secret = api_secret,
                              !.permission = "user:delete",
                              !.result = r.err]
               /\ UNCHANGED acct
          ELSE IF user \notin Accounts
          THEN /\ last' = [NoLast EXCEPT !.op = "delete_user",
                              !.ident = api_key, !.secret = api_secret,
                              !.permission = "user:delete",
                              !.result = "User not found"]
               /\ UNCHANGED acct
          ELSE /\ acct' = [acct EXCEPT ![user].status = "DELETED"]
               /\ last' = [NoLast EXCEPT !.op = "delete_user",
                              !.ident = api_key, !.secret = api_secret,
                              !.permission = "user:delete", !.a = user,
                              !.result = "User deleted successfully"]
       /\ UNCHANGED <<business, user_roles, role_permissions, now, refresh_tokens,
                      jwt_blacklist, otp_codes, nextJti, nextOtp, held, req>>

\* GET /clients/approvals: require_role(["ADMIN", "COMPLIANCE"]) and a
\* query of the approvals
list_client_approvals(bearer) ==
    LET err == require_role({"ADMIN", "COMPLIANCE"}, {}, bearer)
    IN /\ last' = [NoLast EXCEPT !.op = "list_client_approvals",
                      !.a = validate_access_token(jwt_blacklist, bearer, now),
                      !.result = IF err = None THEN "ok" ELSE err]
       /\ UNCHANGED <<business, access, now, acct, refresh_tokens, jwt_blacklist,
                      otp_codes, nextJti, nextOtp, held, req>>

\* seed_role, run at start-up: db.query(Role).filter_by(name="SUPER_ADMIN")
\* is a Query, never falsy, so no role is added; the permissions are set as
\* an attribute of that Query and no row of role_permissions is written
seed_role ==
    /\ last' = [NoLast EXCEPT !.op = "seed_role", !.result = "ok"]
    /\ UNCHANGED <<business, access, now, acct, refresh_tokens, jwt_blacklist,
                   otp_codes, nextJti, nextOtp, held, req>>

\* ------------------------------------------------- client returns
\* Each request has its own database session (READ COMMITTED). A SELECT ...
\* FOR UPDATE waits while another transaction holds the row; a plain SELECT
\* never waits; an UPDATE waits for the row and then writes the value the
\* session computed.
RECURSIVE SumQty(_, _)
\* sum(qty_returned) of the lines of one return that reference order_item_id
SumQty(items, order_item_id) ==
    IF items = <<>> THEN 0
    ELSE (IF Head(items)[1] = order_item_id THEN Head(items)[2] ELSE 0)
         + SumQty(Tail(items), order_item_id)

RECURSIVE ReturnedQty(_, _, _)
\* coalesce(sum(ClientReturnItem.qty_returned), 0) over the returns of the
\* order
ReturnedQty(rows, order_id, order_item_id) ==
    IF rows = <<>> THEN 0
    ELSE (IF Head(rows).order_id = order_id
          THEN SumQty(Head(rows).items, order_item_id) ELSE 0)
         + ReturnedQty(Tail(rows), order_id, order_item_id)

RECURSIVE TotalAmount(_)
\* total_amount += item.qty_returned * order_item.unit_price
TotalAmount(items) ==
    IF items = <<>> THEN 0
    ELSE Head(items)[2] * OrderItemPrice(Head(items)[1])
         + TotalAmount(Tail(items))

\* the lines of a request that the loop of create_return refuses
RefusedLines(rows, order_id, items) ==
    {i \in DOMAIN items :
        \/ items[i][1] \notin OrderItemIds
        \/ items[i][2] > OrderItemQty(items[i][1])
                         - ReturnedQty(rows, order_id, items[i][1])}

\* the order items of `order_id` are locked by another transaction
ItemsLocked(p, order_id) ==
    \E q \in Procs \ {p} : txn[q].pc = "create_locked" /\ txn[q].id = order_id

\* ClientReturnService.create_return up to the SELECT ... FOR UPDATE of the
\* order items; data is [client_id, order_id, items], items a list of
\* <<order_item_id, qty_returned>>
create_return_lock(p, data) ==
    /\ txn[p].pc = "idle"
    /\ Len(client_returns) < MaxRows
    /\ IF data.client_id \notin ClientIds
       THEN /\ last' = [NoLast EXCEPT !.op = "create_return", !.arg = data,
                           !.result = "Client not found"]
            /\ UNCHANGED txn
       ELSE IF \/ data.order_id \notin OrderIds
               \/ OrderClient(data.order_id) # data.client_id
       THEN /\ last' = [NoLast EXCEPT !.op = "create_return", !.arg = data,
                           !.result = "Order not found"]
            /\ UNCHANGED txn
       ELSE /\ ~ItemsLocked(p, data.order_id)
            /\ txn' = [txn EXCEPT ![p] =
                          [NoTxn EXCEPT !.pc = "create_locked",
                              !.id = data.order_id, !.items = data.items]]
            /\ last' = [NoLast EXCEPT !.op = "create_return", !.arg = data,
                           !.result = "locked"]
    /\ UNCHANGED <<auth, access, stock, expenses, current_balance, client_returns,
                   client_payments>>

\* the loop over data.items, the INSERT and the commit, which releases the
\* order items
create_return_commit(p) ==
    LET order_id == txn[p].id
        items == txn[p].items
        refused == RefusedLines(client_returns, order_id, items)
        first == CHOOSE i \in refused : \A j \in refused : i <= j
        data == [client_id |-> OrderClient(order_id), order_id |-> order_id,
                 items |-> items]
    IN /\ txn[p].pc = "create_locked"
       /\ txn' = [txn EXCEPT ![p] = NoTxn]
       /\ IF refused # {}
          THEN /\ last' = [NoLast EXCEPT !.op = "create_return",
                              !.arg = data,
                              !.result =
                                 IF items[first][1] \notin OrderItemIds
                                 THEN "Order item does not belong to order"
                                 ELSE "Return qty exceeds available quantity"]
               /\ UNCHANGED client_returns
          ELSE /\ client_returns' = Append(client_returns,
                      [client_id |-> OrderClient(order_id),
                       order_id |-> order_id,
                       total_amount |-> TotalAmount(items),
                       status |-> "PENDING", approved_by |-> 0,
                       items |-> items])
               /\ last' = [NoLast EXCEPT !.op = "create_return",
                              !.arg = data, !.result = "created"]
       /\ UNCHANGED <<auth, access, stock, expenses, current_balance, client_payments>>

\* the client_returns row / the clients row is locked by another transaction
ReturnLocked(p, return_id) ==
    \E q \in Procs \ {p} :
        /\ txn[q].pc \in {"approve_return_locked", "approve_client_locked"}
        /\ txn[q].id = return_id

ClientLocked(p, client_id) ==
    \E q \in Procs \ {p} :
        /\ txn[q].pc = "approve_client_locked"
        /\ client_returns[txn[q].id].client_id = client_id

\* ClientReturnService.approve_return up to the status test: SELECT the
\* return FOR UPDATE
approve_return_lock(p, return_id) ==
    /\ txn[p].pc = "idle"
    /\ IF return_id \notin DOMAIN client_returns
       THEN /\ last' = [NoLast EXCEPT !.op = "approve_return",
                           !.arg = return_id, !.result = "Return not found"]
            /\ UNCHANGED txn
       ELSE /\ ~ReturnLocked(p, return_id)
            /\ IF client_returns[return_id].status # "PENDING"
               THEN /\ last' = [NoLast EXCEPT !.op = "approve_return",
                                   !.arg = return_id, !.result =
                                      "Only pending returns can be approved"]
                    /\ UNCHANGED txn
               ELSE /\ txn' = [txn EXCEPT ![p] =
                                  [NoTxn EXCEPT
                                      !.pc = "approve_return_locked",
                                      !.id = return_id]]
                    /\ last' = [NoLast EXCEPT !.op = "approve_return",
                                   !.arg = return_id, !.result = "locked"]
    /\ UNCHANGED <<auth, access, stock, expenses, current_balance, client_returns,
                   client_payments>>

\* SELECT the client FOR UPDATE
approve_return_client(p) ==
    LET client_id == client_returns[txn[p].id].client_id
    IN /\ txn[p].pc = "approve_return_locked"
       /\ ~ClientLocked(p, client_id)
       /\ txn' = [txn EXCEPT ![p].pc = "approve_client_locked",
                             ![p].read = current_balance[client_id]]
       /\ last' = [NoLast EXCEPT !.op = "approve_return",
                      !.arg = txn[p].id, !.result = "locked"]
       /\ UNCHANGED <<auth, access, stock, expenses, current_balance, client_returns,
                      client_payments>>

\* client.current_balance -= client_return.total_amount, the status, and
\* the commit
approve_return_commit(p, approver_id) ==
    LET return_id == txn[p].id
        client_id == client_returns[return_id].client_id
    IN /\ txn[p].pc = "approve_client_locked"
       /\ current_balance' = [current_balance EXCEPT ![client_id] =
              txn[p].read - client_returns[return_id].total_amount]
       /\ client_returns' = [client_returns EXCEPT
              ![return_id].status = "APPROVED",
              ![return_id].approved_by = approver_id]
       /\ txn' = [txn EXCEPT ![p] = NoTxn]
       /\ last' = [NoLast EXCEPT !.op = "approve_return",
                      !.arg = return_id, !.result = "approved"]
       /\ UNCHANGED <<auth, access, stock, expenses, client_payments>>

\* db.query(ClientReturn).first(): one row of the table, whichever the
\* database returns first; return_id is not part of the query
RejectTargets(rows, return_id) == DOMAIN rows

\* ClientReturnService.reject_return
reject_return(return_id, approver_id) ==
    /\ IF RejectTargets(client_returns, return_id) = {}
       THEN /\ last' = [NoLast EXCEPT !.op = "reject_return",
                           !.arg = return_id, !.result = "Return not found"]
            /\ UNCHANGED client_returns
       ELSE \E i \in RejectTargets(client_returns, return_id) :
               /\ ~ReturnLocked(0, i)
               /\ IF client_returns[i].status # "PENDING"
                  THEN /\ last' = [NoLast EXCEPT !.op = "reject_return",
                                      !.arg = return_id, !.result =
                                         "Only pending returns can be rejected"]
                       /\ UNCHANGED client_returns
                  ELSE /\ client_returns' = [client_returns EXCEPT
                              ![i].status = "REJECTED",
                              ![i].approved_by = approver_id]
                       /\ last' = [NoLast EXCEPT !.op = "reject_return",
                                      !.arg = return_id,
                                      !.result = "rejected"]
    /\ UNCHANGED <<auth, access, stock, expenses, current_balance, client_payments, txn>>

\* ------------------------------------------------- client payments
\* ClientPaymentService.create up to the commit: SELECT the client (no
\* lock); data is [client_id, amount] with no invoice
payment_read(p, data) ==
    /\ txn[p].pc = "idle"
    /\ Len(client_payments) < MaxRows
    /\ IF data.client_id \notin ClientIds
       THEN /\ last' = [NoLast EXCEPT !.op = "create_payment", !.arg = data,
                           !.result = "Client not found"]
            /\ UNCHANGED txn
       ELSE /\ txn' = [txn EXCEPT ![p] =
                          [NoTxn EXCEPT !.pc = "payment_read",
                              !.id = data.client_id, !.amount = data.amount,
                              !.read = current_balance[data.client_id]]]
            /\ last' = [NoLast EXCEPT !.op = "create_payment", !.arg = data,
                           !.result = "read"]
    /\ UNCHANGED <<auth, access, stock, expenses, current_balance, client_returns,
                   client_payments>>

\* db.commit(): INSERT the payment and UPDATE clients SET current_balance =
\* (the balance read) - amount
payment_commit(p) ==
    /\ txn[p].pc = "payment_read"
    /\ ~ClientLocked(p, txn[p].id)
    /\ current_balance' = [current_balance EXCEPT ![txn[p].id] =
                              txn[p].read - txn[p].amount]
    /\ client_payments' = Append(client_payments,
                              [client_id |-> txn[p].id,
                               amount |-> txn[p].amount])
    /\ txn' = [txn EXCEPT ![p] = NoTxn]
    /\ last' = [NoLast EXCEPT !.op = "create_payment",
                   !.arg = [client_id |-> txn[p].id,
                            amount |-> txn[p].amount],
                   !.result = "created"]
    /\ UNCHANGED <<auth, access, stock, expenses, client_returns>>

\* ------------------------------------------------------- inventory
\* get_inventory_item_by_variant_and_warehouse: the ids of the rows found
ItemOf(inv, warehouse_id) ==
    {i \in InventoryIds :
        inv[i] # NoRow /\ inv[i].warehouse_id = warehouse_id}

\* the id the sequence gives to a new row
FreeId(inv) ==
    CHOOSE i \in InventoryIds :
        inv[i] = NoRow /\ \A j \in InventoryIds : inv[j] = NoRow => i <= j

\* the body of increase_stock: item.quantity += quantity, or a new row
IncreaseStock(inv, warehouse_id, quantity) ==
    IF ItemOf(inv, warehouse_id) # {}
    THEN LET i == CHOOSE j \in ItemOf(inv, warehouse_id) : TRUE
         IN [inv EXCEPT ![i].quantity = @ + quantity]
    ELSE [inv EXCEPT ![FreeId(inv)] =
             [warehouse_id |-> warehouse_id, quantity |-> quantity,
              reserved_quantity |-> 0]]

\* an increase keeps the model finite
CanIncrease(inv, warehouse_id, quantity) ==
    IF ItemOf(inv, warehouse_id) # {}
    THEN \A i \in ItemOf(inv, warehouse_id) :
            inv[i].quantity + quantity <= MaxQty
    ELSE \E i \in InventoryIds : inv[i] = NoRow

\* if item.quantity < Decimal('0'): item.quantity = Decimal('0')
ClampQuantity(row) ==
    IF row.quantity < 0 THEN [row EXCEPT !.quantity = 0] ELSE row

\* the body of decrease_stock on the row found: the error raised (None
\* when there is none) and the row committed
DecreaseStock(row, quantity, reserve_first) ==
    IF reserve_first
    THEN IF row.reserved_quantity >= quantity
         THEN [err |-> None,
               row |-> ClampQuantity([row EXCEPT
                          !.reserved_quantity = @ - quantity,
                          !.quantity = @ - quantity])]
         ELSE IF row.quantity - row.reserved_quantity >= quantity
         THEN [err |-> None,
               row |-> ClampQuantity([row EXCEPT
                          !.reserved_quantity = 0,
                          !.quantity = @ - (quantity
                                            - row.reserved_quantity)])]
         ELSE [err |-> "Insufficient available stock", row |-> row]
    ELSE IF row.quantity - row.reserved_quantity < quantity
         THEN [err |-> "Insufficient available stock", row |-> row]
         ELSE [err |-> None,
               row |-> ClampQuantity([row EXCEPT !.quantity = @ - quantity])]

\* a numeric field the request body leaves out (None)
Unset == -9

\* data.quantity or Decimal('0')
OrZero(x) == IF x = Unset THEN 0 ELSE x

\* InventoryService.create_inventory_item; data is [warehouse_id, quantity,
\* reserved_quantity]
create_inventory_item(data) ==
    LET found == ItemOf(inventory, data.warehouse_id)
        row == [warehouse_id |-> data.warehouse_id,
                quantity |-> OrZero(data.quantity),
                reserved_quantity |-> OrZero(data.reserved_quantity)]
        base == [NoLast EXCEPT !.op = "create_inventory_item", !.arg = data]
    IN /\ IF data.warehouse_id \notin WarehouseIds
          THEN /\ last' = [base EXCEPT !.result = "Warehouse not found"]
               /\ UNCHANGED inventory
          ELSE IF found # {}
          THEN /\ inventory' = [inventory EXCEPT
                      ![CHOOSE i \in found : TRUE] = row]
               /\ last' = [base EXCEPT !.result = "ok"]
          ELSE /\ \E i \in InventoryIds : inventory[i] = NoRow
               /\ inventory' = [inventory EXCEPT ![FreeId(inventory)] = row]
               /\ last' = [base EXCEPT !.result = "ok"]
       /\ UNCHANGED <<auth, access, ledger, expenses, procurement_status>>

\* the error update_inventory_item raises for `data` on `row`, None when
\* it commits; data is [quantity, reserved_quantity, warehouse_id]
UpdateError(inv, row, data) ==
    LET quantity == IF data.quantity # Unset THEN data.quantity
                    ELSE row.quantity
    IN IF data.quantity # Unset /\ data.quantity < 0
       THEN "Quantity cannot be negative"
       ELSE IF data.reserved_quantity # Unset /\ data.reserved_quantity < 0
       THEN "Reserved quantity cannot be negative"
       ELSE IF /\ data.reserved_quantity # Unset
               /\ data.reserved_quantity > quantity
       THEN "Reserved quantity cannot exceed available quantity"
       ELSE IF /\ data.warehouse_id # Unset
               /\ data.warehouse_id # row.warehouse_id
               /\ data.warehouse_id \notin WarehouseIds
       THEN "Warehouse not found"
       ELSE IF /\ data.warehouse_id # Unset
               /\ data.warehouse_id # row.warehouse_id
               /\ ItemOf(inv, data.warehouse_id) # {}
       THEN "Product variant already exists in warehouse"
       ELSE None

\* InventoryService.update_inventory_item
update_inventory_item(inventory_id, data) ==
    LET row == inventory[inventory_id]
        err == UpdateError(inventory, row, data)
        base == [NoLast EXCEPT !.op = "update_inventory_item", !.arg = data]
    IN /\ IF inventory_id \notin InventoryIds
          THEN /\ last' = [base EXCEPT !.result = "Inventory item not found"]
               /\ UNCHANGED inventory
          ELSE IF row = NoRow
          THEN /\ last' = [base EXCEPT !.result = "Inventory item not found"]
               /\ UNCHANGED inventory
          ELSE IF err # None
          THEN /\ last' = [base EXCEPT !.result = err]
               /\ UNCHANGED inventory
          ELSE /\ inventory' = [inventory EXCEPT ![inventory_id] =
                      [warehouse_id |-> IF data.warehouse_id # Unset
                                        THEN data.warehouse_id
                                        ELSE row.warehouse_id,
                       quantity |-> IF data.quantity # Unset
                                    THEN data.quantity ELSE row.quantity,
                       reserved_quantity |->
                           IF data.reserved_quantity # Unset
                           THEN data.reserved_quantity
                           ELSE row.reserved_quantity]]
               /\ last' = [base EXCEPT !.result = "ok"]
       /\ UNCHANGED <<auth, access, ledger, expenses, procurement_status>>

\* InventoryService.increase_stock
increase_stock(warehouse_id, quantity) ==
    LET base == [NoLast EXCEPT !.op = "increase_stock",
                    !.arg = [warehouse_id |-> warehouse_id,
                             quantity |-> quantity]]
    IN /\ IF quantity <= 0
          THEN /\ last' = [base EXCEPT !.result = "Quantity must be positive"]
               /\ UNCHANGED inventory
          ELSE /\ CanIncrease(inventory, warehouse_id, quantity)
               /\ inventory' = IncreaseStock(inventory, warehouse_id,
                                             quantity)
               /\ last' = [base EXCEPT !.result = "ok"]
       /\ UNCHANGED <<auth, access, ledger, expenses, procurement_status>>

\* InventoryService.decrease_stock
decrease_stock(warehouse_id, quantity, reserve_first) ==
    LET found == ItemOf(inventory, warehouse_id)
        i == CHOOSE j \in found : TRUE
        r == DecreaseStock(inventory[i], quantity, reserve_first)
        base == [NoLast EXCEPT !.op = "decrease_stock",
                    !.arg = [warehouse_id |-> warehouse_id,
                             quantity |-> quantity,
                             reserve_first |-> reserve_first]]
    IN /\ IF quantity <= 0
          THEN /\ last' = [base EXCEPT !.result = "Quantity must be positive"]
               /\ UNCHANGED inventory
          ELSE IF found = {}
          THEN /\ last' = [base EXCEPT !.result = "Product variant not found"]
               /\ UNCHANGED inventory
          ELSE IF r.err # None
          THEN /\ last' = [base EXCEPT !.result = r.err]
               /\ UNCHANGED inventory
          ELSE /\ inventory' = [inventory EXCEPT ![i] = r.row]
               /\ last' = [base EXCEPT !.result = "ok"]
       /\ UNCHANGED <<auth, access, ledger, expenses, procurement_status>>

\* InventoryService.reserve_stock
reserve_stock(warehouse_id, quantity) ==
    LET found == ItemOf(inventory, warehouse_id)
        i == CHOOSE j \in found : TRUE
        base == [NoLast EXCEPT !.op = "reserve_stock",
                    !.arg = [warehouse_id |-> warehouse_id,
                             quantity |-> quantity]]
    IN /\ IF quantity <= 0
          THEN /\ last' = [base EXCEPT !.result = "Quantity must be positive"]
               /\ UNCHANGED inventory
          ELSE IF found = {}
          THEN /\ last' = [base EXCEPT !.result = "Product variant not found"]
               /\ UNCHANGED inventory
          ELSE IF inventory[i].quantity - inventory[i].reserved_quantity
                     < quantity
          THEN /\ last' = [base EXCEPT !.result = "Cannot reserve"]
               /\ UNCHANGED inventory
          ELSE /\ inventory' = [inventory EXCEPT
                                   ![i].reserved_quantity = @ + quantity]
               /\ last' = [base EXCEPT !.result = "ok"]
       /\ UNCHANGED <<auth, access, ledger, expenses, procurement_status>>

\* InventoryService.release_reserved_stock
release_reserved_stock(warehouse_id, quantity) ==
    LET found == ItemOf(inventory, warehouse_id)
        i == CHOOSE j \in found : TRUE
        base == [NoLast EXCEPT !.op = "release_reserved_stock",
                    !.arg = [warehouse_id |-> warehouse_id,
                             quantity |-> quantity]]
    IN /\ IF quantity <= 0
          THEN /\ last' = [base EXCEPT !.result = "Quantity must be positive"]
               /\ UNCHANGED inventory
          ELSE IF found = {}
          THEN /\ last' = [base EXCEPT !.result = "Product variant not found"]
               /\ UNCHANGED inventory
          ELSE IF inventory[i].reserved_quantity < quantity
          THEN /\ last' = [base EXCEPT !.result = "Cannot release"]
               /\ UNCHANGED inventory
          ELSE /\ inventory' = [inventory EXCEPT
                                   ![i].reserved_quantity = @ - quantity]
               /\ last' = [base EXCEPT !.result = "ok"]
       /\ UNCHANGED <<auth, access, ledger, expenses, procurement_status>>

\* InventoryService.transfer_stock
transfer_stock(from_warehouse_id, to_warehouse_id, quantity) ==
    LET found == ItemOf(inventory, from_warehouse_id)
        i == CHOOSE j \in found : TRUE
        base == [NoLast EXCEPT !.op = "transfer_stock",
                    !.arg = [from_warehouse_id |-> from_warehouse_id,
                             to_warehouse_id |-> to_warehouse_id,
                             quantity |-> quantity]]
    IN /\ IF from_warehouse_id = to_warehouse_id
          THEN /\ last' = [base EXCEPT !.result =
                      "Source and destination warehouses cannot be the same"]
               /\ UNCHANGED inventory
          ELSE IF quantity <= 0
          THEN /\ last' = [base EXCEPT !.result =
                              "Transfer quantity must be positive"]
               /\ UNCHANGED inventory
          ELSE IF \/ from_warehouse_id \notin WarehouseIds
                  \/ to_warehouse_id \notin WarehouseIds
          THEN /\ last' = [base EXCEPT !.result = "Warehouse not found"]
               /\ UNCHANGED inventory
          ELSE IF found = {}
          THEN /\ last' = [base EXCEPT !.result = "Product variant not found"]
               /\ UNCHANGED inventory
          ELSE IF inventory[i].quantity - inventory[i].reserved_quantity
                     < quantity
          THEN /\ last' = [base EXCEPT !.result =
                              "Insufficient stock for transfer"]
               /\ UNCHANGED inventory
          ELSE /\ CanIncrease(inventory, to_warehouse_id, quantity)
               /\ inventory' = IncreaseStock(
                      [inventory EXCEPT ![i].quantity = @ - quantity],
                      to_warehouse_id, quantity)
               /\ last' = [base EXCEPT !.result = "ok"]
       /\ UNCHANGED <<auth, access, ledger, expenses, procurement_status>>

\* InventoryService.finalize_sale of POS 1 (warehouse 1) with one sale item
\* of `quantity` units: decrease_stock(..., reserve_first=True); every
\* error is raised again as a ValidationException
finalize_sale(quantity) ==
    LET found == ItemOf(inventory, 1)
        i == CHOOSE j \in found : TRUE
        r == DecreaseStock(inventory[i], quantity, TRUE)
        base == [NoLast EXCEPT !.op = "finalize_sale",
                    !.arg = [warehouse_id |-> 1, quantity |-> quantity,
                             reserve_first |-> TRUE]]
    IN /\ IF quantity <= 0 \/ found = {}
          THEN /\ last' = [base EXCEPT !.result = "Error finalizing sale"]
               /\ UNCHANGED inventory
          ELSE IF r.err # None
          THEN /\ last' = [base EXCEPT !.result = "Error finalizing sale"]
               /\ UNCHANGED inventory
          ELSE /\ inventory' = [inventory EXCEPT ![i] = r.row]
               /\ last' = [base EXCEPT !.result = "ok"]
       /\ UNCHANGED <<auth, access, ledger, expenses, procurement_status>>

\* ----------------------------------------------------- procurements
\* ProcurementService.mark_as_delivered: the row is read FOR UPDATE, and
\* the commit inside increase_stock writes the status with the stock
mark_as_delivered(procurement_id) ==
    LET base == [NoLast EXCEPT !.op = "mark_as_delivered",
                    !.arg = procurement_id]
    IN /\ IF procurement_id \notin ProcurementIds
          THEN /\ last' = [base EXCEPT !.result = "Procurement not found"]
               /\ UNCHANGED stock
          ELSE IF procurement_status[procurement_id].status = "delivered"
          THEN /\ last' = [base EXCEPT !.result =
                              "Procurement is already delivered"]
               /\ UNCHANGED stock
          ELSE IF procurement_status[procurement_id].status = "cancelled"
          THEN /\ last' = [base EXCEPT !.result =
                              "Cannot deliver cancelled procurement"]
               /\ UNCHANGED stock
          ELSE /\ CanIncrease(inventory, 1, ProcurementQty)
               /\ procurement_status' = [procurement_status EXCEPT
                      ![procurement_id].status = "delivered"]
               /\ inventory' = IncreaseStock(inventory, 1, ProcurementQty)
               /\ last' = [base EXCEPT !.result = "ok"]
       /\ UNCHANGED <<auth, access, ledger, expenses>>

\* ProcurementService.cancel_procurement
cancel_procurement(procurement_id) ==
    LET base == [NoLast EXCEPT !.op = "cancel_procurement",
                    !.arg = procurement_id]
    IN /\ IF procurement_id \notin ProcurementIds
          THEN /\ last' = [base EXCEPT !.result = "Procurement not found"]
               /\ UNCHANGED procurement_status
          ELSE IF procurement_status[procurement_id].status = "cancelled"
          THEN /\ last' = [base EXCEPT !.result =
                              "Procurement is already cancelled"]
               /\ UNCHANGED procurement_status
          ELSE IF procurement_status[procurement_id].status = "delivered"
          THEN /\ last' = [base EXCEPT !.result =
                              "Cannot cancel delivered procurement"]
               /\ UNCHANGED procurement_status
          ELSE /\ procurement_status' = [procurement_status EXCEPT
                      ![procurement_id].status = "cancelled"]
               /\ last' = [base EXCEPT !.result = "ok"]
       /\ UNCHANGED <<auth, access, ledger, expenses, inventory>>

\* InventoryService.receive_procurement up to the commit of increase_stock:
\* no test of the status, no lock
receive_procurement_stock(procurement_id, warehouse_id) ==
    LET base == [NoLast EXCEPT !.op = "receive_procurement",
                    !.arg = procurement_id]
    IN /\ IF procurement_id \notin ProcurementIds
          THEN /\ last' = [base EXCEPT !.result = "Procurement not found"]
               /\ UNCHANGED stock
          ELSE IF warehouse_id \notin WarehouseIds
          THEN /\ last' = [base EXCEPT !.result = "Warehouse not found"]
               /\ UNCHANGED stock
          ELSE /\ procurement_status[procurement_id].receiving = 0
               /\ CanIncrease(inventory, warehouse_id, ProcurementQty)
               /\ inventory' = IncreaseStock(inventory, warehouse_id,
                                             ProcurementQty)
               /\ procurement_status' = [procurement_status EXCEPT
                      ![procurement_id].receiving = warehouse_id]
               /\ last' = [base EXCEPT !.result = "stock"]
       /\ UNCHANGED <<auth, access, ledger, expenses>>

\* the rest of receive_procurement: procurement.status = "delivered" and
\* the commit; `accepted` is whether the database takes the string
receive_procurement_status(procurement_id, accepted) ==
    LET base == [NoLast EXCEPT !.op = "receive_procurement",
                    !.arg = procurement_id]
    IN /\ procurement_id \in ProcurementIds
       /\ procurement_status[procurement_id].receiving # 0
       /\ IF accepted
          THEN /\ procurement_status' = [procurement_status EXCEPT
                      ![procurement_id] =
                          [status |-> "delivered", receiving |-> 0]]
               /\ last' = [base EXCEPT !.result = "ok"]
          ELSE /\ procurement_status' = [procurement_status EXCEPT
                      ![procurement_id].receiving = 0]
               /\ last' = [base EXCEPT !.result =
                              "Error receiving procurement"]
       /\ UNCHANGED <<auth, access, ledger, expenses, inventory>>

\* --------------------------------------------------------- expenses
\* POSExpenseStatus
POSExpenseStatus == {"draft", "approved", "rejected", "paid"}

\* the row of an expense that db.delete removed
NoExpense == [status |-> "deleted", approved_by_id |-> 0]

\* POSUserService.get_pos_user_by_id finds the POS users with these ids
PosUserIds == {1}

\* ExpenseService.get_expense raises ExpenseNotFoundException
ExpenseMissing(expense_id) ==
    \/ expense_id \notin ExpenseIds
    \/ /\ expense_id \in ExpenseIds
       /\ expenses[expense_id] = NoExpense

\* the error update_expense raises for `data` on `row`, None when it
\* commits; data is [amount, status, approved_by_id]
UpdateExpenseError(row, data) ==
    IF row.status \in {"approved", "paid"}
    THEN "Cannot update expense"
    ELSE IF data.amount # Unset /\ data.amount <= 0
    THEN "Amount must be positive"
    ELSE IF data.status = "approved" /\ row.approved_by_id = 0
    THEN "Cannot approve expense without approver"
    ELSE IF /\ data.approved_by_id # Unset
            /\ data.approved_by_id \notin PosUserIds
    THEN "Approver user not found"
    ELSE None

\* ExpenseService.update_expense
update_expense(expense_id, data) ==
    LET base == [NoLast EXCEPT !.op = "update_expense", !.arg = expense_id]
    IN /\ IF ExpenseMissing(expense_id)
          THEN /\ last' = [base EXCEPT !.result = "Expense not found"]
               /\ UNCHANGED expenses
          ELSE IF UpdateExpenseError(expenses[expense_id], data) # None
          THEN /\ last' = [base EXCEPT !.result =
                      UpdateExpenseError(expenses[expense_id], data)]
               /\ UNCHANGED expenses
          ELSE /\ expenses' = [expenses EXCEPT ![expense_id] =
                      [status |-> IF data.status # None THEN data.status
                                  ELSE @.status,
                       approved_by_id |->
                           IF data.approved_by_id # Unset
                           THEN data.approved_by_id ELSE @.approved_by_id]]
               /\ last' = [base EXCEPT !.result = "ok"]
       /\ UNCHANGED <<auth, access, ledger, stock>>

\* ExpenseService.delete_expense
delete_expense(expense_id) ==
    LET base == [NoLast EXCEPT !.op = "delete_expense", !.arg = expense_id]
    IN /\ IF ExpenseMissing(expense_id)
          THEN /\ last' = [base EXCEPT !.result = "Expense not found"]
               /\ UNCHANGED expenses
          ELSE IF expenses[expense_id].status # "draft"
          THEN /\ last' = [base EXCEPT !.result =
                      "Can only delete expenses in draft status"]
               /\ UNCHANGED expenses
          ELSE /\ expenses' = [expenses EXCEPT ![expense_id] = NoExpense]
               /\ last' = [base EXCEPT !.result = "ok"]
       /\ UNCHANGED <<auth, access, ledger, stock>>

\* ExpenseService.approve_expense
approve_expense(expense_id, approver_id) ==
    LET base == [NoLast EXCEPT !.op = "approve_expense", !.arg = expense_id]
    IN /\ IF ExpenseMissing(expense_id)
          THEN /\ last' = [base EXCEPT !.result = "Expense not found"]
               /\ UNCHANGED expenses
          ELSE IF expenses[expense_id].status # "draft"
          THEN /\ last' = [base EXCEPT !.result =
                      "Can only approve expenses in draft status"]
               /\ UNCHANGED expenses
          ELSE IF approver_id \notin PosUserIds
          THEN /\ last' = [base EXCEPT !.result = "Approver user not found"]
               /\ UNCHANGED expenses
          ELSE /\ expenses' = [expenses EXCEPT ![expense_id] =
                      [status |-> "approved", approved_by_id |-> approver_id]]
               /\ last' = [base EXCEPT !.result = "ok"]
       /\ UNCHANGED <<auth, access, ledger, stock>>

\* ExpenseService.reject_expense
reject_expense(expense_id) ==
    LET base == [NoLast EXCEPT !.op = "reject_expense", !.arg = expense_id]
    IN /\ IF ExpenseMissing(expense_id)
          THEN /\ last' = [base EXCEPT !.result = "Expense not found"]
               /\ UNCHANGED expenses
          ELSE IF expenses[expense_id].status # "draft"
          THEN /\ last' = [base EXCEPT !.result =
                      "Can only reject expenses in draft status"]
               /\ UNCHANGED expenses
          ELSE /\ expenses' = [expenses EXCEPT
                                  ![expense_id].status = "rejected"]
               /\ last' = [base EXCEPT !.result = "ok"]
       /\ UNCHANGED <<auth, access, ledger, stock>>

\* ExpenseService.mark_expense_as_paid
mark_expense_as_paid(expense_id) ==
    LET base == [NoLast EXCEPT !.op = "mark_expense_as_paid",
                    !.arg = expense_id]
    IN /\ IF ExpenseMissing(expense_id)
          THEN /\ last' = [base EXCEPT !.result = "Expense not found"]
               /\ UNCHANGED expenses
          ELSE IF expenses[expense_id].status # "approved"
          THEN /\ last' = [base EXCEPT !.result =
                      "Can only mark approved expenses as paid"]
               /\ UNCHANGED expenses
          ELSE /\ expenses' = [expenses EXCEPT ![expense_id].status = "paid"]
               /\ last' = [base EXCEPT !.result = "ok"]
       /\ UNCHANGED <<auth, access, ledger, stock>>

\* ---------------------------------------------- refresh, two sessions
\* Each request has its own database session (READ COMMITTED): the SELECT
\* of refresh_tokens sees the rows committed so far; nothing locks them.
\* refresh_read is the handler up to the account lookup, refresh_commit is
\* token_record.is_active = False; db.commit(); create_tokens(...).
refresh_read(p, token) ==
    LET target == RefreshTarget(refresh_tokens, token, now)
        others == {q \in Procs \ {p} :
                      req[q].pc = "refresh_read" /\ req[q].tok = token}
    IN /\ req[p].pc = "idle"
       /\ IF target = {}
          THEN /\ req' = [req EXCEPT ![p] =
                    [Idle EXCEPT !.pc = "refresh_failed", !.tok = token]]
          ELSE \E i \in target :
                  req' = [q \in Procs |->
                      IF q = p
                      THEN [Idle EXCEPT !.pc = "refresh_read", !.tok = token,
                               !.row = i, !.conc = others # {},
                               !.a = <<token.account_type, token.sub>>]
                      ELSE IF q \in others
                      THEN [req[q] EXCEPT !.conc = TRUE]
                      ELSE req[q]]
       /\ last' = [NoLast EXCEPT !.op = "refresh_read"]
       /\ UNCHANGED <<business, access, now, acct, refresh_tokens, jwt_blacklist, otp_codes,
                      nextJti, nextOtp, held>>

\* the UPDATE goes by primary key, whatever is_active has become meanwhile
refresh_commit(p) ==
    LET a == req[p].a
        at == MintedAt(a)
        rt == MintedRt(a)
    IN /\ req[p].pc = "refresh_read"
       /\ Len(refresh_tokens) < MaxRows
       /\ refresh_tokens' = Append(
              [refresh_tokens EXCEPT ![req[p].row].is_active = FALSE],
              NewRefreshRow(a, rt, Len(refresh_tokens) + 1, now))
       /\ nextJti' = nextJti + 1
       /\ held' = [access |-> held.access \cup {at},
                   refresh |-> held.refresh \cup {rt}]
       /\ req' = [req EXCEPT ![p].pc = "refresh_done"]
       /\ last' = [NoLast EXCEPT !.op = "refresh", !.a = a,
                                 !.result = "tokens"]
       /\ UNCHANGED <<business, access, now, acct, jwt_blacklist, otp_codes, nextOtp>>

\* ------------------------------------------------------- specifications
\* The handlers above leave `hist` alone; each specification conjoins the
\* history it needs.

\* sessions of user 1 on several devices: logins with the right password,
\* refresh, logout, time passing; the history is the set of access tokens
\* a logout was performed with
LoginOk ==
    /\ login_password("e1", "pw", "ip1", "ua1", "c1")
    /\ UNCHANGED hist

\* a PIN login of POS user 1, who has the primary key of user 1
LoginPinOk ==
    /\ login_pin("p1", "pin", "ip1", "ua1")
    /\ UNCHANGED hist

Refresh ==
    /\ \E token \in held.refresh : refresh_tokens_call(token)
    /\ UNCHANGED hist

Logout ==
    \E token \in held.access, scheme \in Schemes :
        /\ logout(token, scheme)
        /\ hist' = [hist EXCEPT !.loggedOut =
                       IF last'.result = "ok" THEN @ \cup {token} ELSE @]

LogoutAll ==
    \E token \in held.access, scheme \in Schemes :
        /\ logout_all(token, scheme)
        /\ hist' = [hist EXCEPT !.loggedOut =
                       IF last'.result = "ok" THEN @ \cup {token} ELSE @]

Clock == Tick /\ UNCHANGED hist

NextSession ==
    \/ LoginOk
    \/ Refresh
    \/ Logout
    \/ LogoutAll
    \/ Clock

SpecSession == Init /\ [][NextSession]_vars

\* the same requests and PIN logins, with the history of the raw refresh
\* tokens that were redeemed and of those a logout-all revoked
RefreshReplay ==
    \E token \in held.refresh :
        /\ refresh_tokens_call(token)
        /\ hist' = [hist EXCEPT !.redeemed =
                       IF last'.result = "tokens" THEN @ \cup {token} ELSE @]

LogoutReplay ==
    /\ \E token \in held.access : logout(token, "Bearer")
    /\ UNCHANGED hist

LogoutAllReplay ==
    \E token \in held.access :
        /\ logout_all(token, "Bearer")
        /\ hist' = [hist EXCEPT !.revoked =
                       IF last'.result = "ok"
                       THEN @ \cup IssuedTo(refresh_tokens, last'.a) ELSE @]

NextReplay ==
    \/ LoginOk
    \/ LoginPinOk
    \/ RefreshReplay
    \/ LogoutReplay
    \/ LogoutAllReplay
    \/ Clock

SpecReplay == Init /\ [][NextReplay]_vars

\* refresh requests with every kind of argument: the refresh and access
\* tokens handed out, a token signed with another key, a token of an
\* account that no longer exists; logout-all and the clock make rows
\* inactive and expired.  The history is the token presented last.
Forged ==
    {[create_refresh_token(<<"user", 1>>, 0) EXCEPT !.key = "attacker"],
     [create_refresh_token(<<"user", 1>>, 0) EXCEPT !.sub = 9]}

RefreshAny ==
    \E token \in held.refresh \cup held.access \cup Forged :
        /\ refresh_tokens_call(token)
        /\ hist' = [hist EXCEPT !.presented = token]

NextRefresh ==
    \/ LoginOk
    \/ RefreshAny
    \/ LogoutAllReplay
    \/ Clock

SpecRefresh == Init /\ [][NextRefresh]_vars

\* token types: every token handed out is presented both to POST
\* /auth/refresh and as the bearer token of POST /auth/logout
BearerAny ==
    \E token \in held.access \cup held.refresh :
        /\ logout(token, "Bearer")
        /\ hist' = [hist EXCEPT !.presented = token]

NextTypes ==
    \/ LoginOk
    \/ RefreshAny
    \/ BearerAny
    \/ Clock

SpecTypes == Init /\ [][NextTypes]_vars

\* issuing: user 1, POS user 1 (same primary key) and client 2 log in
ClientPinOk ==
    /\ login_pin("p2", "pin", "ip1", "ua1")
    /\ UNCHANGED hist

NextIssue ==
    \/ LoginOk
    \/ LoginPinOk
    \/ ClientPinOk
    \/ Clock

SpecIssue == Init /\ [][NextIssue]_vars

\* POST /auth/verify-otp: the route calls
\* AuthService.verify_otp(db, verify_data, "login"), so the request object
\* arrives as `email`; email.strip() raises AttributeError before any query
\* and the request ends as an internal error
verify_otp_route(email, code) ==
    /\ last' = [NoLast EXCEPT !.op = "verify_otp", !.ident = email,
                              !.code = code, !.purpose = "login",
                              !.result = "Internal Server Error"]
    /\ UNCHANGED <<business, access, now, acct, refresh_tokens, jwt_blacklist, otp_codes,
                   nextJti, nextOtp, held, req>>

\* the account a login request addresses: the row authenticate verifies
\* the secret against (NoAcct when the identifier resolves to none)
Addressed(ident, mode) ==
    authenticate(acct, ident, "bad", mode, "ip1", "ua1", now).a

\* the secret stored for the account in the mode's column
IsCorrect(a, secret, mode) ==
    verify_password(secret, acct[a][IF mode = "password"
                                    THEN "password_hash" ELSE "pin_hash"])

\* history of the lockout: the run of wrong secrets since the last accepted
\* login of each account, and when the latest of them happened
LockoutHistory(ident, secret, mode) ==
    LET a == Addressed(ident, mode)
    IN IF a = NoAcct THEN hist' = hist
       ELSE IF ~IsCorrect(a, secret, mode)
       THEN /\ hist.wrong[a] < AttemptsCap
            /\ hist' = [hist EXCEPT !.wrong[a] = @ + 1, !.wrongAt[a] = now]
       ELSE IF last'.result \in {"tokens", "otp_required"}
       THEN hist' = [hist EXCEPT !.wrong[a] = 0, !.wrongAt[a] = NoTime]
       ELSE hist' = hist

\* lockout: logins of user 1, POS user 1 and an unknown identifier with
\* right and wrong secrets, from one device
PasswordLogin ==
    \E ident \in {"e1", "ex"}, secret \in {"pw", "bad"} :
        /\ login_password(ident, secret, "ip1", "ua1", "c1")
        /\ LockoutHistory(ident, secret, "password")

PinLogin ==
    \E ident \in {"p1"}, secret \in {"pin", "bad"} :
        /\ login_pin(ident, secret, "ip1", "ua1")
        /\ LockoutHistory(ident, secret, "pin")

NextLockout ==
    \/ PasswordLogin
    \/ PinLogin
    \/ Clock

SpecLockout == Init /\ [][NextLockout]_vars

\* account status: user 1, POS user 1 and client 2 start in any status
\* (UserStatus / ClientStatus names, POSUser.is_active) and log in with the
\* right secret
Statuses == {"ACTIVE", "SUSPENDED", "INACTIVE"}

InitRest ==
    /\ now = 0
    /\ InitAccess
    /\ InitBusiness
    /\ refresh_tokens = <<>>
    /\ jwt_blacklist = {}
    /\ otp_codes = {}
    /\ nextJti = 1
    /\ nextOtp = 1
    /\ held = [access |-> {}, refresh |-> {}]
    /\ req = [p \in Procs |-> Idle]
    /\ hist = [redeemed |-> {}, loggedOut |-> {}, revoked |-> {},
               wrong |-> [a \in Accounts |-> 0],
               wrongAt |-> [a \in Accounts |-> NoTime],
               consumed |-> {}, presented |-> NoTok, applied |-> 0,
               approved |-> {}, rejected |-> {}, received |-> 0]
    /\ last = NoLast

InitStatus ==
    /\ \E s \in Statuses, c \in Statuses, b \in BOOLEAN :
          acct = [a \in Accounts |->
                    IF a = <<"user", 1>>
                    THEN [InitAccount(a) EXCEPT !.status = s]
                    ELSE IF a = <<"pos", 1>>
                    THEN [InitAccount(a) EXCEPT !.is_active = b]
                    ELSE IF a = <<"client", 2>>
                    THEN [InitAccount(a) EXCEPT !.status = c]
                    ELSE InitAccount(a)]
    /\ InitRest

StatusPasswordLogin ==
    /\ \E ident \in {"e1", "p2"} :
          login_password(ident, "pw", "ip1", "ua1", "c1")
    /\ UNCHANGED hist

StatusPinLogin ==
    /\ \E ident \in {"p1", "p2"} : login_pin(ident, "pin", "ip1", "ua1")
    /\ UNCHANGED hist

NextStatus ==
    \/ StatusPasswordLogin
    \/ StatusPinLogin
    \/ Clock

SpecStatus == InitStatus /\ [][NextStatus]_vars

\* login windows: user 1 and POS user 1 start with any allowed_login_start
\* and allowed_login_end (times of day, or NULL) and log in with the right
\* secret as the clock advances
Times == {NoTime} \cup (0..MaxTime)

InitWindow ==
    /\ \E start \in Times, end \in Times :
          acct = [a \in Accounts |->
                    IF a \in {<<"user", 1>>, <<"pos", 1>>}
                    THEN [InitAccount(a) EXCEPT
                             !.allowed_login_start = start,
                             !.allowed_login_end = end]
                    ELSE InitAccount(a)]
    /\ InitRest

WindowPasswordLogin ==
    /\ login_password("e1", "pw", "ip1", "ua1", "c1")
    /\ UNCHANGED hist

WindowPinLogin ==
    /\ login_pin("p1", "pin", "ip1", "ua1")
    /\ UNCHANGED hist

NextWindow ==
    \/ WindowPasswordLogin
    \/ WindowPinLogin
    \/ Clock

SpecWindow == InitWindow /\ [][NextWindow]_vars

\* enumeration: logins with known and unknown identifiers, right and wrong
\* secrets, in both modes
EnumPasswordLogin ==
    /\ \E ident \in {"e1", "ex"}, secret \in {"pw", "bad"} :
          login_password(ident, secret, "ip1", "ua1", "c1")
    /\ UNCHANGED hist

EnumPinLogin ==
    /\ \E ident \in {"p1", "px"}, secret \in {"pin", "bad"} :
          login_pin(ident, secret, "ip1", "ua1")
    /\ UNCHANGED hist

NextEnum ==
    \/ EnumPasswordLogin
    \/ EnumPinLogin
    \/ Clock

SpecEnum == Init /\ [][NextEnum]_vars

\* step-up: password logins of user 1 with the right secret from two
\* addresses and two browsers, and the OTP route
StepUpUAs == {"ua1", "uaLong"}

StaffLogin ==
    /\ \E ip \in IPs, ua \in StepUpUAs, code \in Codes :
          login_password("e1", "pw", ip, ua, code)
    /\ UNCHANGED hist

VerifyOtpRoute ==
    /\ \E code \in Codes : verify_otp_route("e1", code)
    /\ UNCHANGED hist

NextStepUp ==
    \/ StaffLogin
    \/ VerifyOtpRoute
    \/ Clock

SpecStepUp == Init /\ [][NextStepUp]_vars

\* two clients replay refresh tokens at the same time; each sends one
\* request
RefreshRead ==
    /\ \E p \in Procs, token \in held.refresh : refresh_read(p, token)
    /\ UNCHANGED hist

RefreshCommit ==
    /\ \E p \in Procs : refresh_commit(p)
    /\ UNCHANGED hist

NextRefreshRace ==
    \/ LoginOk
    \/ RefreshRead
    \/ RefreshCommit
    \/ Clock

SpecRefreshRace == Init /\ [][NextRefreshRace]_vars

\* one-time codes: reset requests and verifications for user 1 and POS
\* user 1, direct verifications; the history is
\* the set of OTP rows that were consumed
JustConsumed ==
    {r.id : r \in {x \in otp_codes' : x.is_used}} \
        {r.id : r \in {x \in otp_codes : x.is_used}}

OtpHistory == hist' = [hist EXCEPT !.consumed = @ \cup JustConsumed]

ResetRequest ==
    /\ \E ident \in {"e1", "p1"}, code \in Codes :
          request_password_reset(ident, code)
    /\ OtpHistory

ResetVerify ==
    /\ \E ident \in {"E1", "p1"}, code \in Codes, pw \in {"pw2", "short"} :
          verify_and_reset_password(ident, code, pw)
    /\ OtpHistory

AuthVerify ==
    /\ \E code \in Codes :
          auth_verify_otp("e1", code, "password_reset")
    /\ OtpHistory

ClockOtp == Tick /\ OtpHistory

NextOtp ==
    \/ ResetRequest
    \/ ResetVerify
    \/ AuthVerify
    \/ ClockOtp

SpecOtp == Init /\ [][NextOtp]_vars

\* two password-reset requests at the same time
ResetDelete ==
    /\ \E p \in Procs, ident \in {"e1", "p1"} : reset_delete(p, ident)
    /\ UNCHANGED hist

ResetCommit ==
    /\ \E p \in Procs, code \in Codes : reset_commit(p, code)
    /\ UNCHANGED hist

NextOtpRace ==
    \/ ResetDelete
    \/ ResetCommit
    \/ ClockOtp

SpecOtpRace == Init /\ [][NextOtpRace]_vars

\* API-key and bearer callers of the guarded routes. A bearer caller sends
\* its access token and no X-API-Key / X-API-Secret header.
LoginSuper ==
    /\ login_password("e2", "pw", "ip1", "ua1", "c1")
    /\ UNCHANGED hist

KeyCheck ==
    /\ \E p \in Permissions, k \in KeyNames \cup {"kx"}, good \in BOOLEAN :
           permission_checker(p, k, IF good THEN k ELSE "bad")
    /\ hist' = [hist EXCEPT !.presented = NoTok]

KeyDeleteUser ==
    /\ \E k \in KeyNames, user_id \in {2, 3} : delete_user(k, k, user_id)
    /\ hist' = [hist EXCEPT !.presented = NoTok]

BearerDeleteUser ==
    \E token \in held.access :
        /\ delete_user(None, None, 1)
        /\ hist' = [hist EXCEPT !.presented = token]

BearerListApprovals ==
    \E token \in held.access :
        /\ list_client_approvals(token)
        /\ hist' = [hist EXCEPT !.presented = token]

SeedRole == seed_role /\ UNCHANGED hist

NextPermission ==
    \/ LoginOk
    \/ LoginSuper
    \/ BearerDeleteUser
    \/ BearerListApprovals
    \/ SeedRole
    \/ Clock

SpecPermission == Init /\ [][NextPermission]_vars

NextApiKey ==
    \/ KeyCheck
    \/ KeyDeleteUser
    \/ Clock

SpecApiKey == Init /\ [][NextApiKey]_vars

\* password changes of user 1 and of client 2, who signs in by PIN and has
\* no password yet
InitPassword ==
    /\ InitRest
    /\ acct = [a \in Accounts |->
                 IF a = <<"client", 2>>
                 THEN [InitAccount(a) EXCEPT !.password_hash = NoHash]
                 ELSE InitAccount(a)]

\* the bodies sent: <<old_password, new_password, confirm_password>>
PasswordChanges ==
    {<<"pw", "pw2", "pw2">>, <<"pw", "pw", "pw">>, <<"pw", "pw2", "pw">>,
     <<"pw", "short", "short">>, <<"pw2", "pw", "pw">>, <<"", "pw", "pw">>}

ChangePasswordAny ==
    /\ \E token \in held.access \cup {NoTok}, body \in PasswordChanges :
           change_password(token, body[1], body[2], body[3])
    /\ UNCHANGED hist

\* each account signs in once
FirstLogin ==
    /\ \A token \in held.access : token.account_type # "user"
    /\ LoginOk

FirstPinLogin ==
    /\ \A token \in held.access : token.account_type # "client"
    /\ ClientPinOk

NextPassword ==
    \/ FirstLogin
    \/ FirstPinLogin
    \/ ChangePasswordAny
    \/ Clock

SpecPassword == InitPassword /\ [][NextPassword]_vars

\* PIN changes by user 1 and POS user 1, who have the same primary key
\* the bodies sent: <<old_pin, new_pin, confirm_pin>>
PinChanges ==
    {<<"pin", "1234", "1234">>, <<"", "1234", "1234">>,
     <<"pin", "123456", "1234">>, <<"pin", "12345", "12345">>,
     <<"pin", "12ab", "12ab">>, <<"1234", "123456", "123456">>}

ChangePinAny ==
    /\ \E token \in held.access \cup {NoTok}, body \in PinChanges :
           change_pin(token, body[1], body[2], body[3])
    /\ UNCHANGED hist

FirstPosLogin ==
    /\ \A token \in held.access : token.account_type # "pos"
    /\ LoginPinOk

NextPin ==
    \/ FirstLogin
    \/ FirstPosLogin
    \/ ChangePinAny
    \/ Clock

SpecPin == Init /\ [][NextPin]_vars

\* approvals of two pending returns of client 2 and payments of the same
\* client, by two sessions
PendingReturn(items) ==
    [client_id |-> 2, order_id |-> 1, total_amount |-> TotalAmount(items),
     status |-> "PENDING", approved_by |-> 0, items |-> items]

InitLedger ==
    /\ InitAuth
    /\ InitInventory
    /\ InitProcurement
    /\ InitExpenses
    /\ current_balance = [c \in ClientIds |-> InitBalance]
    /\ client_returns = <<PendingReturn(<<<<1, 1>>>>),
                          PendingReturn(<<<<1, 1>>, <<2, 1>>>>)>>
    /\ client_payments = <<>>
    /\ txn = [p \in Procs |-> NoTxn]

ApproveLock ==
    /\ \E p \in Procs, return_id \in 1..3 : approve_return_lock(p, return_id)
    /\ UNCHANGED hist

ApproveClient ==
    /\ \E p \in Procs : approve_return_client(p)
    /\ UNCHANGED hist

ApproveCommit ==
    \E p \in Procs :
        /\ approve_return_commit(p, 1)
        /\ hist' = [hist EXCEPT !.applied =
                       @ + client_returns[txn[p].id].total_amount]

PaymentRead ==
    /\ \E p \in Procs, amount \in {1, 2} :
           payment_read(p, [client_id |-> 2, amount |-> amount])
    /\ UNCHANGED hist

PaymentCommit ==
    \E p \in Procs :
        /\ payment_commit(p)
        /\ hist' = [hist EXCEPT !.applied = @ + txn[p].amount]

NextLedger ==
    \/ ApproveLock
    \/ ApproveClient
    \/ ApproveCommit
    \/ PaymentRead
    \/ PaymentCommit

SpecLedger == InitLedger /\ [][NextLedger]_vars

\* returns of the items of order 1, by two sessions
ReturnRequests ==
    {[client_id |-> c, order_id |-> o, items |-> items] :
        c \in {2}, o \in {1},
        items \in {<<<<1, 1>>>>, <<<<1, 2>>>>, <<<<1, 2>>, <<1, 1>>>>,
                   <<<<2, 1>>, <<3, 1>>>>}}
    \cup {[client_id |-> 9, order_id |-> 1, items |-> <<<<1, 1>>>>],
          [client_id |-> 2, order_id |-> 9, items |-> <<<<1, 1>>>>]}

CreateLock ==
    /\ \E p \in Procs, data \in ReturnRequests : create_return_lock(p, data)
    /\ UNCHANGED hist

CreateCommit ==
    /\ \E p \in Procs : create_return_commit(p)
    /\ UNCHANGED hist

NextReturns ==
    \/ CreateLock
    \/ CreateCommit

SpecReturns == Init /\ [][NextReturns]_vars

\* rejections and approvals of the two pending returns
Reject ==
    /\ \E return_id \in 1..3 : reject_return(return_id, 1)
    /\ UNCHANGED hist

NextReject ==
    \/ Reject
    \/ ApproveLock
    \/ ApproveClient
    \/ ApproveCommit

SpecReject == InitLedger /\ [][NextReject]_vars

\* the stock operations on warehouses 1 and 2
Quantities == {0, 1, 2}

CreateItem ==
    /\ \E w \in WarehouseIds \cup {9}, q \in {Unset, 1}, r \in {Unset, 2} :
           create_inventory_item([warehouse_id |-> w, quantity |-> q,
                                  reserved_quantity |-> r])
    /\ UNCHANGED hist

UpdateItem ==
    /\ \E i \in InventoryIds, q \in {Unset, -1, 0}, r \in {Unset, 1},
          w \in {Unset, 2} :
           update_inventory_item(i, [quantity |-> q, reserved_quantity |-> r,
                                     warehouse_id |-> w])
    /\ UNCHANGED hist

Increase ==
    /\ \E w \in WarehouseIds, q \in Quantities : increase_stock(w, q)
    /\ UNCHANGED hist

Decrease ==
    /\ \E w \in WarehouseIds, q \in Quantities, reserve_first \in BOOLEAN :
           decrease_stock(w, q, reserve_first)
    /\ UNCHANGED hist

Reserve ==
    /\ \E w \in WarehouseIds, q \in Quantities : reserve_stock(w, q)
    /\ UNCHANGED hist

Release ==
    /\ \E w \in WarehouseIds, q \in Quantities : release_reserved_stock(w, q)
    /\ UNCHANGED hist

Transfer ==
    /\ \E from \in WarehouseIds, to \in WarehouseIds, q \in Quantities :
           transfer_stock(from, to, q)
    /\ UNCHANGED hist

FinalizeSale ==
    /\ \E q \in Quantities : finalize_sale(q)
    /\ UNCHANGED hist

NextInventory ==
    \/ CreateItem
    \/ UpdateItem
    \/ Increase
    \/ Decrease
    \/ Reserve
    \/ Release
    \/ Transfer

SpecInventory == Init /\ [][NextInventory]_vars

\* sales: stock arrives, is reserved, released, sold
NextSale ==
    \/ Increase
    \/ Decrease
    \/ Reserve
    \/ Release
    \/ FinalizeSale

SpecSale == Init /\ [][NextSale]_vars

\* one procurement: deliveries, receipts and cancellations; `received`
\* counts the times its items went into stock
Received ==
    hist' = [hist EXCEPT
                !.received = @ + (IF inventory' # inventory THEN 1 ELSE 0)]

InitProcurementStock ==
    /\ InitAuth
    /\ InitLedgerEmpty
    /\ InitProcurement
    /\ InitExpenses
    /\ inventory = [i \in InventoryIds |->
                       IF i = 1
                       THEN [warehouse_id |-> 1, quantity |-> 1,
                             reserved_quantity |-> 0]
                       ELSE NoRow]

MarkDelivered ==
    /\ \E i \in ProcurementIds \cup {9} : mark_as_delivered(i)
    /\ Received

Cancel ==
    /\ \E i \in ProcurementIds \cup {9} : cancel_procurement(i)
    /\ UNCHANGED hist

ReceiveStock ==
    /\ \E i \in ProcurementIds \cup {9}, w \in WarehouseIds \cup {9} :
           receive_procurement_stock(i, w)
    /\ Received

ReceiveStatus ==
    /\ \E i \in ProcurementIds, accepted \in BOOLEAN :
           receive_procurement_status(i, accepted)
    /\ UNCHANGED hist

NextProcurement ==
    \/ MarkDelivered
    \/ Cancel
    \/ ReceiveStock
    \/ ReceiveStatus

SpecProcurement == InitProcurementStock /\ [][NextProcurement]_vars

\* two draft expenses; `approved` and `rejected` keep the expenses that
\* have had each status
Workflow ==
    hist' = [hist EXCEPT
                !.approved = @ \cup {i \in ExpenseIds :
                                        expenses'[i].status = "approved"},
                !.rejected = @ \cup {i \in ExpenseIds :
                                        expenses'[i].status = "rejected"}]

UpdateExpense ==
    /\ \E i \in ExpenseIds \cup {9}, amount \in {Unset, 0},
          status \in POSExpenseStatus \cup {None},
          approved_by_id \in {Unset, 1, 9} :
           update_expense(i, [amount |-> amount, status |-> status,
                              approved_by_id |-> approved_by_id])
    /\ Workflow

DeleteExpense ==
    /\ \E i \in ExpenseIds \cup {9} : delete_expense(i)
    /\ Workflow

ApproveExpense ==
    /\ \E i \in ExpenseIds \cup {9}, approver_id \in PosUserIds \cup {9} :
           approve_expense(i, approver_id)
    /\ Workflow

RejectExpense ==
    /\ \E i \in ExpenseIds \cup {9} : reject_expense(i)
    /\ Workflow

MarkPaid ==
    /\ \E i \in ExpenseIds \cup {9} : mark_expense_as_paid(i)
    /\ Workflow

NextExpenses ==
    \/ UpdateExpense
    \/ DeleteExpense
    \/ ApproveExpense
    \/ RejectExpense
    \/ MarkPaid

SpecExpenses == Init /\ [][NextExpenses]_vars

\* ----------------------------------------------------------------- claims
\* a step of POST /auth/refresh that presents `token` and is answered with
\* a new token pair
RefreshSucceeds(token) ==
    refresh_tokens_call(token) /\ last'.result = "tokens"

\* a login request of the lockout specification in the given mode
LoginStep(ident, secret, mode) ==
    IF mode = "password"
    THEN login_password(ident, secret, "ip1", "ua1", "c1")
    ELSE login_pin(ident, secret, "ip1", "ua1")

RightSecret(mode) == IF mode = "password" THEN "pw" ELSE "pin"

\* the login was accepted: tokens, or the OTP challenge that follows a
\* verified secret
Accepted == last'.result \in {"tokens", "otp_required"}

\* C1: for every kind of account, once MAX_FAIL wrong secrets in a row were
\* presented the account is suspended: a login with the right secret is
\* rejected until SUSP_MIN after the latest failure; and an accepted login
\* leaves failed_attempts at 0.
C1_Lockout ==
    [][\A ident \in {"e1", "p1"}, mode \in {"password", "pin"} :
          LET a == Addressed(ident, mode)
          IN (a # NoAcct /\ LoginStep(ident, RightSecret(mode), mode)) =>
                /\ (/\ hist.wrong[a] >= MAX_FAIL
                    /\ now < hist.wrongAt[a] + SUSP_MIN) => ~Accepted
                /\ Accepted => acct'[a].failed_attempts = 0]_vars

\* C5: a password login of a staff user is answered with tokens only when
\* no step-up condition holds for the account as recorded before the
\* attempt (no prior login, last login too old, other IP, other user-agent).
C5_StepUpBeforeTokens ==
    [][\A ip \in IPs, ua \in StepUpUAs, code \in Codes :
          (login_password("e1", "pw", ip, ua, code)
              /\ last'.result = "tokens")
          => ~is_otp_required(acct[<<"user", 1>>], ip, ua, now)]_vars

\* the step is a verification, with the arguments recorded in last', that
\* was answered with an account
Verified ==
    /\ \/ auth_verify_otp(last'.ident, last'.code, last'.purpose)
       \/ verify_and_reset_password(last'.ident, last'.code, "pw2")
    /\ last'.result = "ok"

\* C6: an OTP row is consumed at most once, and once a verification with an
\* identifier, a code and a purpose has succeeded, the same verification
\* finds no account.
C6_OtpConsumedOnce ==
    [][Verified =>
          /\ JustConsumed # {}
          /\ JustConsumed \cap hist.consumed = {}
          /\ AuthService_verify_otp(otp_codes', last'.ident, last'.code,
                                    last'.purpose, now) = {}
          /\ OTPService_verify_otp(otp_codes', last'.ident, last'.code,
                                   last'.purpose, now) = {}]_vars

\* a verification that was refused although the account holds a used row
\* with that code and purpose: the second use of a code
C6_Witness ==
    /\ last.op \in {"auth_verify_otp", "verify_and_reset_password"}
    /\ last.result = "Invalid or expired OTP"
    /\ \E r \in otp_codes :
          /\ r.is_used
          /\ r.id \in hist.consumed
          /\ r.code = last.code
          /\ r.purpose = last.purpose
          /\ r.expires_at > now
          /\ <<r.account_type, r.account_id>> \in
                 ByEmail(last.ident) \cup ByPhone("pos", last.ident)

\* C7: at most one unused OTP row per account and purpose, in every state,
\* also when two generate_otp calls for the same pair overlap.
C7_OneUnusedOtp ==
    \A a \in Accounts, purpose \in Purposes :
        Cardinality(UnusedOf(otp_codes, a, purpose)) <= 1

\* C8: a login with the identifier of an existing account and a wrong
\* secret is answered "Invalid credentials", adds exactly 1 to that
\* account's failed_attempts and leaves the counters of every other account.
C8_WrongSecretCounted ==
    [][\A ident \in {"e1", "p1"}, mode \in {"password", "pin"} :
          LET a == Addressed(ident, mode)
          IN (a # NoAcct /\ LoginStep(ident, "bad", mode)) =>
                /\ last'.result = "Invalid credentials"
                /\ acct'[a].failed_attempts = acct[a].failed_attempts + 1
                /\ \A b \in Accounts \ {a} :
                      /\ acct'[b].failed_attempts = acct[b].failed_attempts
                      /\ acct'[b].suspended_until = acct[b].suspended_until]_vars

\* C2: refresh tokens are single-use: a raw refresh token that was redeemed
\* once is never redeemed again, over any sequence of login, refresh and
\* logout requests.
C2_SingleUse ==
    [][\A token \in held.refresh :
          RefreshSucceeds(token) => token \notin hist.redeemed]_vars

\* C3: of two requests that present the same raw refresh token at the same
\* time, at most one is answered with a new token pair.
C3_ConcurrentReplay ==
    \A p \in Procs, q \in Procs :
        (/\ p # q
         /\ req[p].tok = req[q].tok
         /\ req[p].conc
         /\ req[q].conc)
        => ~(req[p].pc = "refresh_done" /\ req[q].pc = "refresh_done")

\* a persisted row for the token's subject and kind that is active,
\* unexpired and stores the hash of the presented token
LiveRowOf(token) ==
    \E i \in DOMAIN refresh_tokens :
        /\ refresh_tokens[i].account_type = token.account_type
        /\ refresh_tokens[i].account_id = token.sub
        /\ refresh_tokens[i].is_active
        /\ refresh_tokens[i].expires_at > now
        /\ refresh_tokens[i].token[2] = token

\* C11: a refresh succeeds only for a validly signed refresh token with such
\* a row; every other refresh fails, mints nothing and leaves every
\* refresh-token row as it was.
C11_RefreshOnlyLiveRow ==
    [][\A token \in held.refresh \cup held.access \cup Forged :
          refresh_tokens_call(token) =>
             IF last'.result = "tokens"
             THEN /\ LiveRowOf(token)
                  /\ token.key = "REFRESH_SECRET_KEY"
                  /\ token.type = "refresh"
             ELSE /\ last'.result = "Invalid or expired refresh token"
                  /\ refresh_tokens' = refresh_tokens
                  /\ held' = held
                  /\ nextJti' = nextJti]_vars

\* a refused refresh whose token is properly signed, unexpired and stored,
\* but in a row that is no longer active
C11_Witness ==
    /\ last.op = "refresh"
    /\ last.result = "Invalid or expired refresh token"
    /\ verify_refresh_token(hist.presented, now)
    /\ \E i \in DOMAIN refresh_tokens :
          /\ refresh_tokens[i].token[2] = hist.presented
          /\ ~refresh_tokens[i].is_active
          /\ refresh_tokens[i].expires_at > now

\* the account's status is an active / approved variant
ActiveVariant(a) ==
    IF Kind(a) = "pos" THEN acct[a].is_active
    ELSE acct[a].status \in {"ACTIVE", "APPROVED"}

\* C12: a login with the right secret for an account whose status is not an
\* active variant is rejected by authenticate with "Account not active",
\* and the login route issues no tokens.
C12_InactiveRejected ==
    [][\A ident \in {"e1", "p1", "p2"}, mode \in {"password", "pin"} :
          LET a == Addressed(ident, mode)
          IN (/\ a # NoAcct
              /\ ~ActiveVariant(a)
              /\ IsCorrect(a, RightSecret(mode), mode)
              /\ LoginStep(ident, RightSecret(mode), mode)) =>
                /\ authenticate(acct, ident, RightSecret(mode), mode,
                                "ip1", "ua1", now).result
                      = "Account not active"
                /\ last'.result = "Account not active"
                /\ held' = held
                /\ refresh_tokens' = refresh_tokens]_vars

\* a POS user who is not active was refused with the right PIN
C12_Witness ==
    /\ last.op = "login_pin"
    /\ last.secret = "pin"
    /\ last.a = <<"pos", 1>>
    /\ ~acct[<<"pos", 1>>].is_active
    /\ last.result = "Account not active"

\* the time-of-day rule: inside [start, end], or outside (end, start) for a
\* window that wraps midnight; no rule when a bound is not set
TimeAllowed(start, end, t) ==
    IF start = NoTime \/ end = NoTime THEN TRUE
    ELSE IF start <= end THEN start <= t /\ t <= end
    ELSE t >= start \/ t <= end

\* C13: enforce_login_policies refuses a login for the time of day exactly
\* when both bounds are set and the current time is outside the window,
\* where a window with start > end wraps midnight.
C13_LoginWindow ==
    [][\A ident \in {"e1", "p1"}, mode \in {"password", "pin"} :
          LET a == Addressed(ident, mode)
          IN (a # NoAcct /\ LoginStep(ident, RightSecret(mode), mode)) =>
                /\ (enforce_login_policies(acct[a], a, now).err = None)
                      <=> TimeAllowed(acct[a].allowed_login_start,
                                      acct[a].allowed_login_end,
                                      TimeOfDay(now))
                /\ Accepted
                      <=> TimeAllowed(acct[a].allowed_login_start,
                                      acct[a].allowed_login_end,
                                      TimeOfDay(now))
                /\ ~Accepted =>
                      last'.result = "Login not allowed at this time"]_vars

\* a login refused outside a window that wraps midnight, with a later time
\* of that day inside the window
C13_Witness ==
    /\ last.op = "login_password"
    /\ last.result = "Login not allowed at this time"
    /\ acct[<<"user", 1>>].allowed_login_start
          > acct[<<"user", 1>>].allowed_login_end
    /\ acct[<<"user", 1>>].allowed_login_end # NoTime
    /\ now < acct[<<"user", 1>>].allowed_login_start

\* C14: a login that fails because the identifier matches no account and a
\* login that fails because the secret is wrong for a known account get
\* the same answer, "Invalid credentials", in every state.
C14_UniformFailure ==
    [][LET mode == IF last'.op = "login_pin" THEN "pin" ELSE "password"
           a == Addressed(last'.ident, mode)
       IN (/\ last'.op \in {"login_password", "login_pin"}
           /\ LoginStep(last'.ident, last'.secret, mode)
           /\ (a = NoAcct \/ ~IsCorrect(a, last'.secret, mode))) =>
             last'.result = "Invalid credentials"]_vars

\* the wrong password of a known, currently suspended account was answered
\* like an unknown identifier
C14_Witness ==
    /\ last.op = "login_password"
    /\ last.ident = "e1"
    /\ last.secret = "bad"
    /\ last.result = "Invalid credentials"
    /\ acct[<<"user", 1>>].suspended_until > now
    /\ acct[<<"user", 1>>].failed_attempts > MAX_FAIL

\* C15: token types are not interchangeable: no refresh token resolves to
\* an account as an access token, a refresh token presented as bearer token
\* is refused without any change, and an access token presented to
\* refresh_tokens is refused.
C15_TokenTypes ==
    [][LET token == hist'.presented
       IN /\ \A rt \in held'.refresh :
                validate_access_token(jwt_blacklist', rt, now') = NoAcct
          /\ (token.type = "refresh" /\ logout(token, "Bearer")) =>
                /\ last'.result = "Invalid or expired token"
                /\ jwt_blacklist' = jwt_blacklist
                /\ refresh_tokens' = refresh_tokens
          /\ (token.type = "access" /\ refresh_tokens_call(token)) =>
                /\ last'.result = "Invalid or expired refresh token"
                /\ refresh_tokens' = refresh_tokens
                /\ held' = held]_vars

\* an unexpired access token that still resolves to its account was refused
\* by refresh_tokens
C15_Witness ==
    /\ last.op = "refresh"
    /\ last.result = "Invalid or expired refresh token"
    /\ hist.presented.type = "access"
    /\ validate_access_token(jwt_blacklist, hist.presented, now) # NoAcct

\* the account a login identifier of the issuing specification belongs to
OwnerOf(ident) ==
    IF ident = "e1" THEN <<"user", 1>>
    ELSE IF ident = "p1" THEN <<"pos", 1>>
    ELSE <<"client", 2>>

\* C16: the tokens a login hands out carry the id and the kind of the
\* account that logged in, and the fresh access token resolves to exactly
\* that account; a POS user's PIN login yields account_type "pos".
C16_TokenIdentity ==
    [][(/\ last'.op \in {"login_password", "login_pin"}
        /\ last'.result = "tokens"
        /\ held' # held) =>
          LET a == OwnerOf(last'.ident)
          IN /\ \A t \in (held'.access \ held.access)
                       \cup (held'.refresh \ held.refresh) :
                   /\ t.sub = Id(a)
                   /\ t.account_type = Kind(a)
             /\ \A t \in held'.access \ held.access :
                   validate_access_token(jwt_blacklist', t, now') = a
             /\ held'.access # held.access
             /\ (last'.op = "login_pin" /\ last'.ident = "p1") =>
                   \A t \in held'.access \ held.access :
                      t.account_type = "pos"]_vars

\* POS user 1 has just received tokens by PIN while user 1, who has the
\* same primary key, holds an access token too
C16_Witness ==
    /\ last.op = "login_pin"
    /\ last.ident = "p1"
    /\ last.result = "tokens"
    /\ \E t \in held.access :
          /\ t.account_type = "pos"
          /\ t.iat = now
          /\ validate_access_token(jwt_blacklist, t, now) = <<"pos", 1>>
    /\ \E t \in held.access : t.account_type = "user" /\ t.sub = 1

\* C4: an access token with which a logout (single device or all devices)
\* was performed resolves to no account in every later state.
C4_LoggedOutTokenRejected ==
    \A token \in hist.loggedOut :
        validate_access_token(jwt_blacklist, token, now) = NoAcct

\* a logged-out token that still decodes (signature and expiry are fine)
C4_Witness ==
    \E token \in hist.loggedOut :
        /\ decode_access_token(token, now)
        /\ last.op \in {"logout", "logout_all"}

\* the refresh-token row minted together with access token `token`:
\* create_tokens inserts row k in the call that draws the k-th jti
PairedRow(token) == token.jti

\* C9: single-device logout blacklists the access token's jti, deactivates
\* the refresh token of that session and leaves the other refresh tokens of
\* the account as they were.
C9_LogoutOneDevice ==
    [][\A token \in held.access :
          (logout(token, "Bearer") /\ last'.result = "ok") =>
             /\ is_blacklisted(jwt_blacklist', token.jti)
             /\ ~refresh_tokens'[PairedRow(token)].is_active
             /\ \A i \in DOMAIN refresh_tokens :
                   (/\ i # PairedRow(token)
                    /\ refresh_tokens[i].account_type = token.account_type
                    /\ refresh_tokens[i].account_id = token.sub)
                   => refresh_tokens'[i] = refresh_tokens[i]]_vars

\* C10: after logout_all_devices every refresh-token row of the account is
\* inactive, and no refresh token issued to the account before the logout
\* is redeemed afterwards.
C10_LogoutAllRevokes ==
    [][/\ \A token \in held.access :
             (logout_all(token, "Bearer") /\ last'.result = "ok") =>
                 \A i \in DOMAIN refresh_tokens' :
                    (/\ refresh_tokens'[i].account_type = token.account_type
                     /\ refresh_tokens'[i].account_id = token.sub)
                    => ~refresh_tokens'[i].is_active
       /\ \A token \in held.refresh :
             RefreshSucceeds(token) => token \notin hist.revoked]_vars

\* the account a bearer token resolves to holds the role SUPER_ADMIN
HoldsSuperAdmin(token) ==
    LET a == validate_access_token(jwt_blacklist, token, now)
    IN a # NoAcct /\ "SUPER_ADMIN" \in user_roles[a]

\* C17: a caller that authenticates with the access token of an account
\* holding the role SUPER_ADMIN passes the permission check of every route,
\* the check for "user:delete" included, although the role has no row in
\* role_permissions.
C17_SuperAdminBypass ==
    [][(/\ BearerDeleteUser \/ BearerListApprovals
        /\ HoldsSuperAdmin(hist'.presented)
        /\ role_permissions["SUPER_ADMIN"] = {})
       => last'.result \in {"User deleted successfully", "ok"}]_vars

\* the api_keys row a request authenticates as: active, not expired, and
\* the secret sent is the one of the key
ValidKey(k, secret) ==
    /\ k \in KeyNames
    /\ api_keys[k].is_active
    /\ ~(api_keys[k].expires_at # NoTime /\ api_keys[k].expires_at < now)
    /\ secret = k

\* the inline permission list of a key, a missing list being empty
InlinePermissions(k) ==
    IF api_keys[k].permissions = None THEN {}
    ELSE {api_keys[k].permissions[i] : i \in DOMAIN api_keys[k].permissions}

\* C18: a request that authenticates with an API key is admitted by
\* require_permission(p) exactly when p is in the inline permission list of
\* the key, a missing list counting as empty, and is otherwise refused with
\* "Insufficient permissions"; a key that lists only "order:create" is
\* refused on "order:cancel".
C18_ApiKeyPermission ==
    [][(/\ KeyCheck \/ KeyDeleteUser
        /\ ValidKey(last'.ident, last'.secret))
       => /\ last'.permission \in InlinePermissions(last'.ident)
             => last'.result \in {"admitted", "User deleted successfully",
                                  "User not found"}
          /\ last'.permission \notin InlinePermissions(last'.ident)
             => /\ last'.result = "Insufficient permissions"
                /\ acct' = acct]_vars

C18_Witness ==
    /\ last.op = "permission_checker"
    /\ last.ident = "k1"
    /\ last.secret = "k1"
    /\ last.permission = "order:cancel"
    /\ last.result = "Insufficient permissions"
    /\ api_keys["k1"].permissions = <<"order:create">>
    /\ api_keys["k1"].last_used # NoTime

\* C19: change_password succeeds only if the new password equals its
\* confirmation, is long enough, and the old password verifies against the
\* stored hash or the account has no stored hash yet; a failing call leaves
\* every stored password hash unchanged.
C19_ChangePassword ==
    [][ChangePasswordAny =>
        LET a == last'.a
            ok == last'.result = "Password changed successfully"
        IN /\ ok => /\ last'.new_password = last'.confirm_password
                    /\ ~TooShort(last'.new_password)
                    /\ \/ /\ acct[a].password_hash # NoHash
                          /\ verify_password(last'.secret,
                                             acct[a].password_hash)
                       \/ acct[a].password_hash = NoHash
                    /\ verify_password(last'.new_password,
                                       acct'[a].password_hash)
           /\ ~ok => \A b \in Accounts :
                        acct'[b].password_hash = acct[b].password_hash]_vars

C19_Witness ==
    /\ last.op = "change_password"
    /\ last.result = "Password changed successfully"
    /\ last.a = <<"user", 1>>
    /\ last.secret = "pw"
    /\ acct[<<"user", 1>>].password_hash = hash_password("pw2", 3)
    /\ acct[<<"client", 2>>].password_hash = hash_password("pw", 3)

\* C20: a password change whose new password equals the old password is
\* refused and leaves the stored hash unchanged.
C20_ReusedPasswordRejected ==
    [][(/\ ChangePasswordAny
        /\ last'.a # NoAcct
        /\ last'.new_password = last'.secret)
       => /\ last'.result = "Password change failed"
          /\ acct'[last'.a].password_hash = acct[last'.a].password_hash]_vars

\* C21: a change-PIN request made with the token of a staff user is always
\* refused and changes the pin_hash of no account, whatever PINs it sends.
C21_StaffPinChangeRejected ==
    [][(ChangePinAny /\ last'.a # NoAcct /\ Kind(last'.a) = "user")
       => /\ last'.result =
                 "PIN change only available for POS users and clients"
          /\ \A b \in Accounts : acct'[b].pin_hash = acct[b].pin_hash]_vars

C21_Witness ==
    /\ last.op = "change_pin"
    /\ last.a = <<"user", 1>>
    /\ last.secret = ""
    /\ last.new_pin = "1234"
    /\ last.confirm_pin = "1234"
    /\ last.result = "PIN change only available for POS users and clients"
    /\ acct[<<"pos", 1>>].pin_hash = hash_password("1234", 4)

\* C23: a logout of account A (one device or all devices) leaves the
\* refresh-token rows of every other account unchanged, also those of an
\* account of another kind that has the primary key of A.
C23_LogoutOnlyOwnSessions ==
    [][(/\ LogoutReplay \/ LogoutAllReplay
        /\ last'.result = "ok")
       => \A i \in DOMAIN refresh_tokens :
             <<refresh_tokens[i].account_type,
               refresh_tokens[i].account_id>> # last'.a
             => refresh_tokens'[i] = refresh_tokens[i]]_vars

\* C24: every call of create_tokens mints a raw refresh token that no
\* earlier call minted, so no two rows of refresh_tokens store the hash of
\* the same raw token.
C24_RefreshTokensDistinct ==
    \A i \in DOMAIN refresh_tokens, j \in DOMAIN refresh_tokens :
        i # j => refresh_tokens[i].token[2] # refresh_tokens[j].token[2]

\* C22: approvals of returns and payments of one client are serialized:
\* whenever no transaction is open, current_balance is the initial balance
\* minus the sum of the amounts of the committed approvals and payments.
C22_NoLostAdjustment ==
    (\A p \in Procs : txn[p].pc = "idle")
    => current_balance[2] = InitBalance - hist.applied

\* C25: for every order item, the quantities returned over all lines of
\* all client returns that reference it never exceed the quantity ordered.
C25_ReturnedWithinOrdered ==
    \A order_item_id \in OrderItemIds :
        ReturnedQty(client_returns, 1, order_item_id)
            <= OrderItemQty(order_item_id)

\* C26: reject_return(return_id) changes only the return with that id, from
\* PENDING to REJECTED, leaves every other return unchanged, and answers
\* "Return not found" when no return has that id.
C26_RejectOnlyTarget ==
    [][Reject =>
        LET return_id == last'.arg
        IN /\ return_id \notin DOMAIN client_returns
              => /\ last'.result = "Return not found"
                 /\ client_returns' = client_returns
           /\ \A i \in DOMAIN client_returns :
                 i # return_id => client_returns'[i] = client_returns[i]
           /\ last'.result = "rejected"
              => /\ client_returns[return_id].status = "PENDING"
                 /\ client_returns'[return_id].status = "REJECTED"]_vars

\* C28: every inventory row satisfies 0 <= reserved_quantity <= quantity.
C28_ReservedWithinQuantity ==
    \A i \in InventoryIds :
        inventory[i] # NoRow
        => /\ 0 <= inventory[i].reserved_quantity
           /\ inventory[i].reserved_quantity <= inventory[i].quantity

\* C29: a successful decrease_stock (or finalize_sale) of q units lowers
\* the quantity of the row by exactly q, with reserve_first true or false.
C29_DecreaseByExactlyQ ==
    [][(/\ Decrease \/ FinalizeSale
        /\ last'.result = "ok")
       => \A i \in ItemOf(inventory, last'.arg.warehouse_id) :
             inventory'[i].quantity
                 = inventory[i].quantity - last'.arg.quantity]_vars

\* C27: the items of a procurement go into stock at most once, and never
\* when the procurement is cancelled: a step that adds them finds the
\* procurement not cancelled and its items not yet received.
C27_StockedAtMostOnce ==
    [][(/\ MarkDelivered \/ ReceiveStock
        /\ inventory' # inventory)
       => /\ procurement_status[1].status # "cancelled"
          /\ hist.received = 0]_vars

\* C30: a paid expense was approved before, and a rejected expense is
\* never approved or paid afterwards.
C30_ExpenseWorkflow ==
    \A i \in ExpenseIds :
        /\ expenses[i].status = "paid" => i \in hist.approved
        /\ i \in hist.rejected
           => expenses[i].status \notin {"approved", "paid"}

====
